---- MODULE Spec2Model ----
(***************************************************************************)
(* The "run" pipeline of TestExprLang: a parsed AstFile is bound           *)
(* (binding.rs), lowered to bytecode (bytecode_compilation.rs) and         *)
(* executed (execute.rs), as main.rs drives it.                            *)
(***************************************************************************)
EXTENDS Integers, Sequences, FiniteSets, TLC

(***************************************************************************)
(* Numbers.  A literal is a u128 and a run-time integer an i64; both are   *)
(* written here as <<k, d>>, standing for k * 2^63 + d with |d| far below  *)
(* 2^63, so that the values around the i64 ceiling and the 2^64 wrap are   *)
(* ordinary values of the model.                                           *)
(***************************************************************************)
Num(k, d) == <<k, d>>

Small(d) == Num(0, d)

NumLess(x, y) == x[1] < y[1] \/ (x[1] = y[1] /\ x[2] < y[2])

\* i64::MAX as u128 (binding.rs:364): 2^63 - 1
I64_MAX == Num(1, -1)

\* i64::MIN: -2^63
I64_MIN == Num(-1, 0)

\* whether k * 2^63 + d lies in [-2^63, 2^63 - 1]
InI64(x) == x[1] = 0 \/ (x[1] = 1 /\ x[2] < 0) \/ (x[1] = -1 /\ x[2] >= 0)

\* two's-complement truncation to 64 bits, read as signed
WrapI64(x) ==
  LET k == x[1] % 2
  IN IF k = 1 /\ x[2] >= 0 THEN Num(-1, x[2]) ELSE Num(k, x[2])

\* `self.value as i64` (bytecode_compilation.rs:96)
AsI64(value) == WrapI64(value)

NumAdd(a, b) == Num(a[1] + b[1], a[2] + b[2])

NumSub(a, b) == Num(a[1] - b[1], a[2] - b[2])

\* the 2^126 term of a product is present iff both operands are large; it
\* is 0 modulo 2^64, and out of i64 range whenever present
NumMulLow(a, b) == Num(a[1] * b[2] + b[1] * a[2], a[2] * b[2])

NumMulFits(a, b) == (a[1] = 0 \/ b[1] = 0) /\ InI64(NumMulLow(a, b))

Abs(n) == IF n < 0 THEN -n ELSE n

Sign(n) == IF n < 0 THEN -1 ELSE 1

\* Rust's integer division truncates toward zero
TruncDiv(n, m) == Sign(n) * Sign(m) * (Abs(n) \div Abs(m))

NumSign(x) == IF x[1] < 0 \/ (x[1] = 0 /\ x[2] < 0) THEN -1 ELSE 1

NumNeg(x) == Num(-x[1], -x[2])

NumAbs(x) == IF NumSign(x) < 0 THEN NumNeg(x) ELSE x

\* a / b for i64 a, b with b # 0 and not (a = MIN and b = -1).  A large
\* dividend over a small divisor other than 1 and -1 has no <<k, d>> form.
NumDivRepresentable(a, b) == ~(a[1] # 0 /\ b[1] = 0 /\ Abs(b[2]) > 1)

NumDiv(a, b) ==
  IF a[1] = 0 /\ b[1] = 0 THEN Small(TruncDiv(a[2], b[2]))
  ELSE IF a[1] = 0 THEN Small(0)
  ELSE IF b[1] # 0
    THEN IF NumLess(NumAbs(a), NumAbs(b)) THEN Small(0)
         ELSE Small(NumSign(a) * NumSign(b))
  ELSE IF b[2] = 1 THEN a
  ELSE IF b[2] = -1 THEN NumNeg(a)
  ELSE <<"unrepresentable">>

(***************************************************************************)
(* Types (types.rs).  Equality is the derived PartialEq: structural.       *)
(***************************************************************************)
TypeVoid == [kind |-> "Void"]

TypeInteger == [kind |-> "Integer"]

TypeBlock(exported_types) == [kind |-> "Block", exported_types |-> exported_types]

TypeProc(parameter_types, return_type) ==
  [kind |-> "Proc", parameter_types |-> parameter_types, return_type |-> return_type]

(***************************************************************************)
(* Syntax trees (ast.rs).  A token is kept as its kind; its location is    *)
(* the node's path in the file together with the token's role, which is    *)
(* unique per token as the byte offset of SourceLocation is.               *)
(***************************************************************************)
AstFile(expressions) == [kind |-> "File", expressions |-> expressions]

AstBlock(expressions) == [kind |-> "Block", expressions |-> expressions]

AstExport(name, value) == [kind |-> "Export", name |-> name, value |-> value]

\* Option::None, for a syntax node or an Rc
None == [kind |-> "None"]

\* value is None or the value's syntax node
AstLet(name, value) == [kind |-> "Let", name |-> name, value |-> value]

AstUnary(operator_token, operand) ==
  [kind |-> "Unary", operator_token |-> operator_token, operand |-> operand]

AstBinary(left, operator_token, right) ==
  [kind |-> "Binary", left |-> left, operator_token |-> operator_token, right |-> right]

AstName(name) == [kind |-> "Name", name |-> name]

AstInteger(value) == [kind |-> "Integer", value |-> value]

AstCall(operand, arguments) ==
  [kind |-> "Call", operand |-> operand, arguments |-> arguments]

TokenLocation(path, token) == <<path, token>>

\* the token each get_location returns
LocationToken(kind) ==
  CASE kind = "File" -> "end_of_file_token"
    [] kind = "Block" -> "open_brace_token"
    [] kind = "Export" -> "name_token"
    [] kind = "Let" -> "name_token"
    [] kind = "Unary" -> "operator_token"
    [] kind = "Binary" -> "operator_token"
    [] kind = "Name" -> "name_token"
    [] kind = "Integer" -> "integer_token"
    [] kind = "Call" -> "open_parenthesis_token"

AstGetLocation(ast, path) == TokenLocation(path, LocationToken(ast.kind))

(***************************************************************************)
(* The lexer (lexer.rs).  A source is the sequence of its characters, each *)
(* a string of length one; a Lexer is the struct without its filepath.     *)
(* Integer values are the u128 of the token, for literals short enough to  *)
(* stay far below 2^127.                                                   *)
(***************************************************************************)
\* '\0', which current_char returns at and past the end (lexer.rs:30)
NUL == "NUL"

DecimalDigits == <<"0", "1", "2", "3", "4", "5", "6", "7", "8", "9">>

UpperLetters ==
  <<"A", "B", "C", "D", "E", "F", "G", "H", "I", "J", "K", "L", "M",
    "N", "O", "P", "Q", "R", "S", "T", "U", "V", "W", "X", "Y", "Z">>

LowerLetters ==
  <<"a", "b", "c", "d", "e", "f", "g", "h", "i", "j", "k", "l", "m",
    "n", "o", "p", "q", "r", "s", "t", "u", "v", "w", "x", "y", "z">>

Elements(seq) == {seq[i] : i \in 1..Len(seq)}

\* c as u128 - first as u128, for c in the range first..=last
Offset(range, c) == (CHOOSE i \in 1..Len(range) : range[i] = c) - 1

\* Lexer::new (lexer.rs:16-24)
Lexer_new(text) == [source |-> text, position |-> 0, line |-> 1, column |-> 1]

\* Lexer::current_char (lexer.rs:26-32)
current_char(self) ==
  IF self.position < Len(self.source) THEN self.source[self.position + 1] ELSE NUL

\* Lexer::next_char (lexer.rs:34-46): the lexer after the call
next_char(self) ==
  [self EXCEPT !.position = @ + 1,
               !.line = IF current_char(self) = "\n" THEN @ + 1 ELSE @,
               !.column = IF current_char(self) = "\n" THEN 1 ELSE @ + 1]

\* Lexer::get_current_location (lexer.rs:48-55)
get_current_location(self) ==
  [position |-> self.position, line |-> self.line, column |-> self.column]

\* TokenKind (token.rs): the variants without a payload, Integer and Name
Kind(tag) == [tag |-> tag]

KindInteger(value) == [tag |-> "Integer", value |-> value]

KindName(value) == [tag |-> "Name", value |-> value]

\* Token { kind, length, location } as next_token builds it at `self`
Token(kind, start_location, self) ==
  [kind |-> kind, length |-> self.position - start_location.position,
   location |-> start_location]

\* Ok(token) with the lexer as the call left it
Lexed(token, self) == [ok |-> TRUE, token |-> token, lexer |-> self]

\* Err(CompileError { location, message, notes: vec![] })
LexError(location, message, self) ==
  [ok |-> FALSE, error |-> [location |-> location, message |-> message], lexer |-> self]

\* Lexer::single_char_token (lexer.rs:57-65)
single_char_token(self, kind) ==
  LET start_location == get_current_location(self)
      after == next_char(self)
  IN Lexed(Token(kind, start_location, after), after)

\* Lexer::double_char_token (lexer.rs:67-89)
double_char_token(self, kind, second_char, second_kind) ==
  LET start_location == get_current_location(self)
      after == next_char(self)
  IN IF current_char(after) = second_char
     THEN Lexed(Token(second_kind, start_location, next_char(after)), next_char(after))
     ELSE Lexed(Token(kind, start_location, after), after)

\* Lexer::double_char_token_2_choice (lexer.rs:91-122)
double_char_token_2_choice(self, kind, second_char_1, second_kind_1, second_char_2, second_kind_2) ==
  LET start_location == get_current_location(self)
      after == next_char(self)
  IN IF current_char(after) = second_char_1
     THEN Lexed(Token(second_kind_1, start_location, next_char(after)), next_char(after))
     ELSE IF current_char(after) = second_char_2
     THEN Lexed(Token(second_kind_2, start_location, next_char(after)), next_char(after))
     ELSE Lexed(Token(kind, start_location, after), after)

RECURSIVE name_loop(_, _)
\* 'name_loop (lexer.rs:165-170): the lexer and the name collected
name_loop(self, value) ==
  IF current_char(self) \in Elements(UpperLetters) \cup Elements(LowerLetters)
                              \cup Elements(DecimalDigits) \cup {"_"}
  THEN name_loop(next_char(self), value \o current_char(self))
  ELSE [lexer |-> self, value |-> value]

\* the base an integer starts in and the lexer after its prefix
\* (lexer.rs:193-220)
IntegerBase(self) ==
  IF current_char(self) = "0"
  THEN LET after == next_char(self)
       IN CASE current_char(after) = "b" -> [base |-> 2, lexer |-> next_char(after)]
            [] current_char(after) = "o" -> [base |-> 8, lexer |-> next_char(after)]
            [] current_char(after) = "d" -> [base |-> 10, lexer |-> next_char(after)]
            [] current_char(after) = "x" -> [base |-> 16, lexer |-> next_char(after)]
            [] OTHER -> [base |-> 10, lexer |-> after]
  ELSE [base |-> 10, lexer |-> self]

\* the value of a digit or letter (lexer.rs:226-231)
CharValue(c) ==
  CASE c \in Elements(DecimalDigits) -> Offset(DecimalDigits, c)
    [] c \in Elements(UpperLetters) -> Offset(UpperLetters, c) + 10
    [] c \in Elements(LowerLetters) -> Offset(LowerLetters, c) + 10

\* a variant of the digit test that lets a digit equal to the base through;
\* C22 tells the two apart
TooBig_OffByOne(value, base) == value > base

\* if value >= base (lexer.rs:233)
TooBig(value, base) == value >= base

RECURSIVE int_loop(_, _, _, _)
\* 'int_loop (lexer.rs:223-263)
int_loop(self, start_location, base, int_value) ==
  LET c == current_char(self)
  IN IF c \in Elements(DecimalDigits) \cup Elements(UpperLetters) \cup Elements(LowerLetters)
     THEN IF TooBig(CharValue(c), base)
          THEN LexError(get_current_location(self), <<"Character is too big for base", c, base>>,
                        self)
          ELSE int_loop(next_char(self), start_location, base, int_value * base + CharValue(c))
     ELSE IF c = "_" THEN int_loop(next_char(self), start_location, base, int_value)
     ELSE Lexed(Token(KindInteger(int_value), start_location, self), self)

RECURSIVE skip_comment(_)
\* while current_char != '\n' && current_char != '\0' (lexer.rs:288-290)
skip_comment(self) ==
  IF current_char(self) # "\n" /\ current_char(self) # NUL
  THEN skip_comment(next_char(self))
  ELSE self

RECURSIVE next_token(_)
\* Lexer::next_token (lexer.rs:124-340)
next_token(self) ==
  LET start_location == get_current_location(self)
      c == current_char(self)
      after == next_char(self)
  IN CASE c = NUL -> Lexed(Token(Kind("EndOfFile"), start_location, self), self)
       [] c \in {" ", "\t"} -> next_token(after)
       [] c = "\n" ->
            LET end == IF current_char(after) = "\r" THEN next_char(after) ELSE after
            IN Lexed(Token(Kind("Newline"), start_location, end), end)
       [] c = "\r" ->
            LET end == IF current_char(after) = "\n" THEN next_char(after) ELSE after
            IN Lexed(Token(Kind("Newline"), start_location, end), end)
       [] c \in Elements(UpperLetters) \cup Elements(LowerLetters) \cup {"_"} ->
            LET name == name_loop(self, "")
            IN CASE name.value = "export" ->
                      Lexed(Token(Kind("Export"), start_location, name.lexer), name.lexer)
                 [] name.value = "let" ->
                      Lexed(Token(Kind("Let"), start_location, name.lexer), name.lexer)
                 [] OTHER ->
                      Lexed(Token(KindName(name.value), start_location, name.lexer), name.lexer)
       [] c \in Elements(DecimalDigits) ->
            int_loop(IntegerBase(self).lexer, start_location, IntegerBase(self).base, 0)
       [] c = "(" -> single_char_token(self, Kind("OpenParenthesis"))
       [] c = ")" -> single_char_token(self, Kind("CloseParenthesis"))
       [] c = "{" -> single_char_token(self, Kind("OpenBrace"))
       [] c = "}" -> single_char_token(self, Kind("CloseBrace"))
       [] c = "," -> single_char_token(self, Kind("Comma"))
       [] c = "+" -> double_char_token(self, Kind("Plus"), "=", Kind("PlusEqual"))
       [] c = "-" -> double_char_token_2_choice(self, Kind("Minus"), "=", Kind("MinusEqual"),
                                                ">", Kind("RightArrow"))
       [] c = "*" -> double_char_token(self, Kind("Asterisk"), "=", Kind("AsteriskEqual"))
       [] c = "/" ->
            IF current_char(after) = "/"
            THEN LET at_end == skip_comment(after)
                 IN next_token(IF current_char(at_end) = "\r" THEN next_char(at_end) ELSE at_end)
            ELSE IF current_char(after) = "="
            THEN Lexed(Token(Kind("SlashEqual"), start_location, next_char(after)),
                       next_char(after))
            ELSE Lexed(Token(Kind("Slash"), start_location, after), after)
       [] c = "=" -> double_char_token(self, Kind("Equal"), "=", Kind("EqualEqual"))
       [] c = "!" -> double_char_token(self, Kind("ExclamationMark"), "=",
                                       Kind("ExclamationMarkEqual"))
       [] c = "<" -> double_char_token_2_choice(self, Kind("LessThan"), "=",
                                                Kind("LessThanEqual"), "-", Kind("RightArrow"))
       [] c = ">" -> double_char_token(self, Kind("GreaterThan"), "=", Kind("LessThanEqual"))
       [] OTHER -> LexError(start_location, <<"Unexpected", c>>, after)

\* Lexer::peek_kind (lexer.rs:342-345): next_token on a clone
peek_kind(self) ==
  LET r == next_token(self)
  IN IF r.ok THEN [ok |-> TRUE, kind |-> r.token.kind] ELSE r

(***************************************************************************)
(* The parser (parsing.rs).  Every function takes the lexer and returns    *)
(* Ok with what it parsed and the lexer as it left it, or the Err of the   *)
(* first `?` or `return Err` it reaches.  A syntax node keeps of each of   *)
(* its tokens what the binder reads: the operator's kind, the name, the    *)
(* integer's value.  A local of the code is a variable bound over the      *)
(* one-element set of its value, Only({body : local \in {value}}), so that *)
(* the value is computed once however often the body reads it.             *)
(***************************************************************************)
Only(S) == CHOOSE v \in S : TRUE

Parsed(node, self) == [ok |-> TRUE, ast |-> node, lexer |-> self]

\* Err(CompileError { location, message, notes: vec![] })
ParseError(location, message) ==
  [ok |-> FALSE, error |-> [location |-> location, message |-> message]]

\* the `?` operator on an Err
Propagate(r) == [ok |-> FALSE, error |-> r.error]

\* allow_newline (parsing.rs:11-16)
allow_newline(self) ==
  Only({IF ~p.ok THEN Propagate(p)
        ELSE IF p.kind = Kind("Newline") THEN [ok |-> TRUE, lexer |-> next_token(self).lexer]
        ELSE [ok |-> TRUE, lexer |-> self] :
        p \in {peek_kind(self)}})

\* get_unary_precedence (parsing.rs:56-61)
get_unary_precedence(kind) ==
  IF kind.tag \in {"Plus", "Minus", "ExclamationMark"} THEN 4 ELSE 0

\* a variant of the precedence table with the two arithmetic levels
\* exchanged; C21 tells the two apart
get_binary_precedence_Exchanged(kind) ==
  CASE kind.tag \in {"Asterisk", "Slash"} -> 2
    [] kind.tag \in {"Plus", "Minus"} -> 3
    [] kind.tag \in {"EqualEqual", "ExclamationMarkEqual", "LessThan", "GreaterThan",
                     "LessThanEqual", "GreaterThanEqual"} -> 1
    [] OTHER -> 0

\* get_binary_precedence (parsing.rs:63-75)
get_binary_precedence(kind) ==
  CASE kind.tag \in {"Asterisk", "Slash"} -> 3
    [] kind.tag \in {"Plus", "Minus"} -> 2
    [] kind.tag \in {"EqualEqual", "ExclamationMarkEqual", "LessThan", "GreaterThan",
                     "LessThanEqual", "GreaterThanEqual"} -> 1
    [] OTHER -> 0

\* the u128 of an integer token as the syntax trees hold it
IntegerValue(token) == Small(token.kind.value)

RECURSIVE skip_newlines(_)
\* while lexer.peek_kind()? == Newline { lexer.next_token()?; }
\* (parsing.rs:21-23, 291-293)
skip_newlines(self) ==
  Only({IF ~p.ok THEN Propagate(p)
        ELSE IF p.kind = Kind("Newline")
        THEN Only({skip_newlines(after) : after \in {next_token(self).lexer}})
        ELSE [ok |-> TRUE, lexer |-> self] :
        p \in {peek_kind(self)}})

RECURSIVE Invoke(_, _, _)
RECURSIVE binary_loop(_, _, _)
RECURSIVE call_loop(_, _)
RECURSIVE argument_loop(_, _, _)
RECURSIVE block_loop(_, _)

\* parse_expression (parsing.rs:48-50).  The parser's functions call one
\* another through Invoke, defined below them.
parse_expression(self) == Invoke("parse_binary_expression", self, 0)

\* arguments.push(parse_expression(lexer)?) and the next turn of the loop
\* (parsing.rs:121)
PushArgument(self, arguments) ==
  Only({IF ~argument.ok THEN argument
        ELSE argument_loop(argument.lexer, FALSE, Append(arguments, argument.ast)) :
        argument \in {parse_expression(self)}})

\* the comma between two arguments (parsing.rs:104-119), then the argument
AfterComma(comma, arguments) ==
  IF comma.token.kind # Kind("Comma")
  THEN ParseError(comma.token.location,
                  <<"Expected , to seperate arguments in the call, but got", comma.token.kind>>)
  ELSE Only({IF ~newline.ok THEN newline
             ELSE Only({IF ~q.ok THEN Propagate(q)
                        ELSE IF q.kind = Kind("CloseParenthesis")
                        THEN [ok |-> TRUE, arguments |-> arguments, lexer |-> newline.lexer]
                        ELSE PushArgument(newline.lexer, arguments) :
                        q \in {peek_kind(newline.lexer)}}) :
             newline \in {allow_newline(comma.lexer)}})

\* the loop over the arguments of a call (parsing.rs:96-122)
argument_loop(self, first, arguments) ==
  Only({IF ~p.ok THEN Propagate(p)
        ELSE IF p.kind = Kind("CloseParenthesis") \/ p.kind = Kind("EndOfFile")
        THEN [ok |-> TRUE, arguments |-> arguments, lexer |-> self]
        ELSE IF first THEN PushArgument(self, arguments)
        ELSE Only({AfterComma(comma, arguments) : comma \in {next_token(self)}}) :
        p \in {peek_kind(self)}})

\* the closing parenthesis of a call (parsing.rs:123-140), then the next
\* turn of the loop
CloseCall(left, arguments) ==
  Only({IF ~close_parenthesis_token.ok THEN Propagate(close_parenthesis_token)
        ELSE IF close_parenthesis_token.token.kind # Kind("CloseParenthesis")
        THEN ParseError(close_parenthesis_token.token.location,
                        <<"Expected ) at the end of the call, but got",
                          close_parenthesis_token.token.kind>>)
        ELSE call_loop(close_parenthesis_token.lexer, AstCall(left, arguments.arguments)) :
        close_parenthesis_token \in {next_token(arguments.lexer)}})

\* while lexer.peek_kind()? == OpenParenthesis (parsing.rs:93-141)
call_loop(self, left) ==
  Only({IF ~p.ok THEN Propagate(p)
        ELSE IF p.kind # Kind("OpenParenthesis") THEN Parsed(left, self)
        ELSE Only({IF ~newline.ok THEN newline
                   ELSE Only({IF ~arguments.ok THEN arguments
                              ELSE CloseCall(left, arguments) :
                              arguments \in {argument_loop(newline.lexer, TRUE, <<>>)}}) :
                   newline \in {allow_newline(next_token(self).lexer)}}) :
        p \in {peek_kind(self)}})

\* the operator and its right operand (parsing.rs:148-155), then the next
\* turn of the loop
BinaryOperation(called, operator_token, binary_precedence, parent_precedence) ==
  Only({IF ~newline.ok THEN newline
        ELSE Only({IF ~right.ok THEN right
                   ELSE binary_loop(right.lexer,
                                    AstBinary(called.ast, operator_token.token.kind.tag,
                                              right.ast),
                                    parent_precedence) :
                   right \in {Invoke("parse_binary_expression", newline.lexer,
                                     binary_precedence)}}) :
        newline \in {allow_newline(operator_token.lexer)}})

\* 'main_loop of parse_binary_expression (parsing.rs:92-156)
binary_loop(self, left, parent_precedence) ==
  Only({IF ~called.ok THEN called
        ELSE Only({IF ~p.ok THEN Propagate(p)
                   ELSE IF get_binary_precedence(p.kind) <= parent_precedence
                   THEN Parsed(called.ast, called.lexer)
                   ELSE Only({BinaryOperation(called, operator_token,
                                              get_binary_precedence(p.kind),
                                              parent_precedence) :
                              operator_token \in {next_token(called.lexer)}}) :
                   p \in {peek_kind(called.lexer)}}) :
        called \in {call_loop(self, left)}})

\* the operator and the operand of a unary expression (parsing.rs:81-87)
UnaryOperation(operator_token, unary_precedence, parent_precedence) ==
  Only({IF ~newline.ok THEN newline
        ELSE Only({IF ~operand.ok THEN operand
                   ELSE binary_loop(operand.lexer,
                                    AstUnary(operator_token.token.kind.tag, operand.ast),
                                    parent_precedence) :
                   operand \in {Invoke("parse_binary_expression", newline.lexer,
                                       unary_precedence)}}) :
        newline \in {allow_newline(operator_token.lexer)}})

\* parse_binary_expression (parsing.rs:52-159)
parse_binary_expression(self, parent_precedence) ==
  Only({IF ~p.ok THEN Propagate(p)
        ELSE IF get_unary_precedence(p.kind) > 0
        THEN Only({UnaryOperation(operator_token, get_unary_precedence(p.kind),
                                  parent_precedence) :
                   operator_token \in {next_token(self)}})
        ELSE Only({IF ~left.ok THEN left
                   ELSE binary_loop(left.lexer, left.ast, parent_precedence) :
                   left \in {Invoke("parse_primary_expression", self, 0)}}) :
        p \in {peek_kind(self)}})

\* allow_newline(lexer)?; let value = parse_expression(lexer)?
\* (parsing.rs:220-221, 249-250)
ParseValue(self) ==
  Only({IF ~newline.ok THEN newline ELSE parse_expression(newline.lexer) :
        newline \in {allow_newline(self)}})

\* the `=` of an export and its value (parsing.rs:208-227)
ExportValue(name_token, equals_token) ==
  IF ~equals_token.ok THEN Propagate(equals_token)
  ELSE IF equals_token.token.kind # Kind("Equal")
  THEN ParseError(equals_token.token.location,
                  <<"Expected Name for export value, but got", equals_token.token.kind>>)
  ELSE Only({IF ~value.ok THEN value
             ELSE Parsed(AstExport(name_token.token.kind.value, value.ast), value.lexer) :
             value \in {ParseValue(equals_token.lexer)}})

\* the Export arm of parse_primary_expression (parsing.rs:193-228)
ParseExport(self) ==
  Only({IF ~name_token.ok THEN Propagate(name_token)
        ELSE IF name_token.token.kind.tag # "Name"
        THEN ParseError(name_token.token.location,
                        <<"Expected Name for export, but got", name_token.token.kind>>)
        ELSE Only({ExportValue(name_token, equals_token) :
                   equals_token \in {next_token(name_token.lexer)}}) :
        name_token \in {next_token(next_token(self).lexer)}})

\* the optional `=` of a let and its value (parsing.rs:245-260)
LetValue(name_token, p) ==
  IF ~p.ok THEN Propagate(p)
  ELSE IF p.kind = Kind("Equal")
  THEN Only({IF ~value.ok THEN value
             ELSE Parsed(AstLet(name_token.token.kind.value, value.ast), value.lexer) :
             value \in {ParseValue(next_token(name_token.lexer).lexer)}})
  ELSE Parsed(AstLet(name_token.token.kind.value, None), name_token.lexer)

\* the Let arm of parse_primary_expression (parsing.rs:230-261)
ParseLet(self) ==
  Only({IF ~name_token.ok THEN Propagate(name_token)
        ELSE IF name_token.token.kind.tag # "Name"
        THEN ParseError(name_token.token.location,
                        <<"Expected Name for let, but got", name_token.token.kind>>)
        ELSE Only({LetValue(name_token, p) : p \in {peek_kind(name_token.lexer)}}) :
        name_token \in {next_token(next_token(self).lexer)}})

\* the closing parenthesis of a parenthesised expression (parsing.rs:178-190)
CloseParenthesis(expression, close_parenthesis_token) ==
  IF ~close_parenthesis_token.ok THEN Propagate(close_parenthesis_token)
  ELSE IF close_parenthesis_token.token.kind # Kind("CloseParenthesis")
  THEN ParseError(close_parenthesis_token.token.location,
                  <<"Expected ) to close the opening (, but got",
                    close_parenthesis_token.token.kind>>)
  ELSE Parsed(expression.ast, close_parenthesis_token.lexer)

\* the OpenParenthesis arm of parse_primary_expression (parsing.rs:175-191)
ParseParenthesised(self) ==
  Only({IF ~expression.ok THEN expression
        ELSE Only({CloseParenthesis(expression, close_parenthesis_token) :
                   close_parenthesis_token \in {next_token(expression.lexer)}}) :
        expression \in {parse_expression(self)}})

\* the arms of parse_primary_expression on the kind peeked and the token
\* next_token returns
PrimaryOf(self, p, token) ==
  IF ~p.ok THEN Propagate(p)
  ELSE CASE p.kind.tag = "Name" -> Parsed(AstName(token.token.kind.value), token.lexer)
         [] p.kind.tag = "Integer" -> Parsed(AstInteger(IntegerValue(token.token)), token.lexer)
         [] p.kind.tag = "OpenBrace" -> Invoke("parse_block", self, 0)
         [] p.kind.tag = "OpenParenthesis" -> ParseParenthesised(token.lexer)
         [] p.kind.tag = "Export" -> ParseExport(self)
         [] p.kind.tag = "Let" -> ParseLet(self)
         [] OTHER -> ParseError(token.token.location,
                                <<"Expected an expression but got", token.token.kind>>)

\* parse_primary_expression (parsing.rs:161-272)
parse_primary_expression(self) ==
  Only({PrimaryOf(self, t[1], t[2]) : t \in {<<peek_kind(self), next_token(self)>>}})

\* the end of an expression of a block (parsing.rs:295-310), then the next
\* turn of the loop
EndOfBlockExpression(expression, q, newline, expressions) ==
  IF ~q.ok THEN Propagate(q)
  ELSE IF q.kind = Kind("CloseBrace") \/ q.kind = Kind("EndOfFile")
  THEN block_loop(expression.lexer, Append(expressions, expression.ast))
  ELSE IF newline.token.kind # Kind("Newline")
  THEN ParseError(newline.token.location,
                  <<"Expected Newline or } at the end of the expression, but got",
                    newline.token.kind>>)
  ELSE block_loop(newline.lexer, Append(expressions, expression.ast))

\* an expression of a block (parsing.rs:291-294)
BlockExpression(self, expressions) ==
  Only({IF ~skipped.ok THEN skipped
        ELSE Only({IF ~expression.ok THEN expression
                   ELSE Only({EndOfBlockExpression(expression, t[1], t[2], expressions) :
                              t \in {<<peek_kind(expression.lexer),
                                       next_token(expression.lexer)>>}}) :
                   expression \in {parse_expression(skipped.lexer)}}) :
        skipped \in {skip_newlines(self)}})

\* the loop of parse_block (parsing.rs:288-311)
block_loop(self, expressions) ==
  Only({IF ~p.ok THEN Propagate(p)
        ELSE IF p.kind = Kind("CloseBrace") \/ p.kind = Kind("EndOfFile")
        THEN [ok |-> TRUE, expressions |-> expressions, lexer |-> self]
        ELSE BlockExpression(self, expressions) :
        p \in {peek_kind(self)}})

\* the closing brace of a block (parsing.rs:313-330)
CloseBlock(body, close_brace_token) ==
  IF ~close_brace_token.ok THEN Propagate(close_brace_token)
  ELSE IF close_brace_token.token.kind # Kind("CloseBrace")
  THEN ParseError(close_brace_token.token.location,
                  <<"Expected }, but got a", close_brace_token.token.kind>>)
  ELSE Parsed(AstBlock(body.expressions), close_brace_token.lexer)

\* the expressions of a block and its closing brace (parsing.rs:288-330)
BlockBody(open_brace_token) ==
  Only({IF ~body.ok THEN body
        ELSE Only({CloseBlock(body, close_brace_token) :
                   close_brace_token \in {next_token(body.lexer)}}) :
        body \in {block_loop(open_brace_token.lexer, <<>>)}})

\* parse_block (parsing.rs:274-331)
parse_block(self) ==
  Only({IF ~open_brace_token.ok THEN Propagate(open_brace_token)
        ELSE IF open_brace_token.token.kind # Kind("OpenBrace")
        THEN ParseError(open_brace_token.token.location,
                        <<"Expected {, but got a", open_brace_token.token.kind>>)
        ELSE BlockBody(open_brace_token) :
        open_brace_token \in {next_token(self)}})

\* a call of parse_binary_expression, parse_primary_expression or parse_block
\* from inside the parser
Invoke(function, self, parent_precedence) ==
  CASE function = "parse_binary_expression" ->
         parse_binary_expression(self, parent_precedence)
    [] function = "parse_primary_expression" -> parse_primary_expression(self)
    [] function = "parse_block" -> parse_block(self)

RECURSIVE file_loop(_, _)

\* the end of a top-level expression (parsing.rs:25-38), then the next turn
\* of the loop
EndOfFileExpression(expression, q, newline, expressions) ==
  IF ~q.ok THEN Propagate(q)
  ELSE IF q.kind = Kind("EndOfFile")
  THEN file_loop(expression.lexer, Append(expressions, expression.ast))
  ELSE IF newline.token.kind # Kind("Newline")
  THEN ParseError(newline.token.location,
                  <<"Expected Newline at the end of the expression, but got",
                    newline.token.kind>>)
  ELSE file_loop(newline.lexer, Append(expressions, expression.ast))

\* a top-level expression (parsing.rs:21-24)
FileExpression(self, expressions) ==
  Only({IF ~skipped.ok THEN skipped
        ELSE Only({IF ~expression.ok THEN expression
                   ELSE Only({EndOfFileExpression(expression, t[1], t[2], expressions) :
                              t \in {<<peek_kind(expression.lexer),
                                       next_token(expression.lexer)>>}}) :
                   expression \in {parse_expression(skipped.lexer)}}) :
        skipped \in {skip_newlines(self)}})

\* the loop of parse_file (parsing.rs:19-39)
file_loop(self, expressions) ==
  Only({IF ~p.ok THEN Propagate(p)
        ELSE IF p.kind = Kind("EndOfFile")
        THEN [ok |-> TRUE, expressions |-> expressions, lexer |-> self]
        ELSE FileExpression(self, expressions) :
        p \in {peek_kind(self)}})

\* the EndOfFile token and the file (parsing.rs:40-45)
EndOfFile(body, end_of_file_token) ==
  IF ~end_of_file_token.ok THEN Propagate(end_of_file_token)
  ELSE [ok |-> TRUE, ast |-> AstFile(body.expressions),
        end_of_file_token |-> end_of_file_token.token, lexer |-> end_of_file_token.lexer]

\* parse_file (parsing.rs:18-46)
parse_file(self) ==
  Only({IF ~body.ok THEN body
        ELSE Only({EndOfFile(body, end_of_file_token) :
                   end_of_file_token \in {next_token(body.lexer)}}) :
        body \in {file_loop(self, <<>>)}})

(***************************************************************************)
(* Bound nodes (bound_nodes.rs).  An Rc<BoundNode> is the address of the   *)
(* node in heap, and a Weak<BoundNode> is an address as well; a node is    *)
(* allocated at the path of the syntax node it was bound from, and the     *)
(* builtin print_integer node of main lives at BuiltinAddress.             *)
(***************************************************************************)
BuiltinAddress == <<0>>

\* SourceLocation { filepath: "builtin.lang", position: 0, line: 1, column: 1 }
BuiltinLocation == TokenLocation(BuiltinAddress, "builtin.lang")

BoundPrintInteger == [kind |-> "PrintInteger", location |-> BuiltinLocation]

\* Option::Some of an Rc
Some(rc) == [kind |-> "Some", rc |-> rc]

\* HashMap::insert
Insert(map, key, value) ==
  [k \in DOMAIN map \cup {key} |-> IF k = key THEN value ELSE map[k]]

EmptyMap == [k \in {} |-> <<>>]

\* Weak::upgrade().unwrap(): the Rc of a referent that is in the heap
Upgrade(heap, weak) == CHOOSE rc \in DOMAIN heap : rc = weak

RECURSIVE get_type(_, _)
\* BoundNodeTrait::get_type of the node at address rc
get_type(heap, rc) ==
  LET node == heap[rc]
  IN CASE node.kind = "Block" -> node.block_type
       [] node.kind = "Export" -> get_type(heap, node.value.rc)
       [] node.kind = "Let" ->
            IF node.value # None THEN get_type(heap, node.value.rc) ELSE TypeVoid
       [] node.kind = "Unary" -> node.operator.result
       [] node.kind = "Binary" -> node.operator.result
       [] node.kind = "Name" -> get_type(heap, Upgrade(heap, node.resolved_expression))
       [] node.kind = "Integer" -> TypeInteger
       [] node.kind = "Call" -> node.proc_type
       [] node.kind = "PrintInteger" -> TypeProc(<<TypeInteger>>, TypeVoid)

\* BoundNodeTrait::get_location
get_location(heap, rc) == heap[rc].location

(***************************************************************************)
(* Binding (binding.rs).  bind(ast, path, names, heap, log) is             *)
(* ast.bind(&mut names) for the syntax node at path; its result carries    *)
(* Ok(node) or Err(error), the names map as the call left it, the heap     *)
(* with the nodes built so far, and log, the trace of the calls of bind:   *)
(* a Called event when bind is entered (with the names it was given) and a *)
(* Returned event when it returns (with its outcome and the names as it    *)
(* left them), in execution order.                                         *)
(***************************************************************************)
Called(path, names) == [event |-> "call", path |-> path, names |-> names]

Returned(path, r) ==
  [event |-> "return", path |-> path, ok |-> r.ok, names |-> r.names,
   error |-> IF r.ok THEN None ELSE r.error]

\* `weak.upgrade().unwrap()` in the bind of the node at path: an event of
\* the same trace
Upgraded(path, weak) == [event |-> "upgrade", path |-> path, weak |-> weak]

RECURSIVE Upgrades(_, _)
\* the Weak references get_type of the node at rc upgrades, in order: the
\* one of a Name (bound_nodes.rs:267), and those below an Export's or a
\* Let's value (bound_nodes.rs:165, 183)
Upgrades(heap, rc) ==
  LET node == heap[rc]
  IN CASE node.kind = "Export" -> Upgrades(heap, node.value.rc)
       [] node.kind = "Let" ->
            IF node.value # None THEN Upgrades(heap, node.value.rc) ELSE <<>>
       [] node.kind = "Name" ->
            <<node.resolved_expression>>
              \o Upgrades(heap, Upgrade(heap, node.resolved_expression))
       [] OTHER -> <<>>

\* log after the bind of the node at path has called rc.get_type().  A
\* bind that calls get_type of one node several times upgrades the same
\* references each time, with no call of bind in between; they are logged
\* once.
Typed(log, path, heap, rc) ==
  log \o [i \in 1..Len(Upgrades(heap, rc)) |-> Upgraded(path, Upgrades(heap, rc)[i])]

RECURSIVE Collected(_, _, _, _, _)
\* log after the loop `for (name, expression) in &exported_expressions`
\* (binding.rs:73-75, 105-107) over the names still to visit: each
\* iteration upgrades the export and calls its get_type.  The order of a
\* HashMap's iteration is unspecified; the events of the loop are adjacent
\* in the log.
Collected(log, path, heap, exported_expressions, todo) ==
  IF todo = {} THEN log
  ELSE LET name == CHOOSE n \in todo : TRUE
           weak == exported_expressions[name]
       IN Collected(Typed(Append(log, Upgraded(path, weak)), path, heap,
                          Upgrade(heap, weak)),
                    path, heap, exported_expressions, todo \ {name})

CompileNote(location, message) == [location |-> location, message |-> message]

CompileError(location, message, notes) ==
  [location |-> location, message |-> message, notes |-> notes]

Ok(node, names, heap, log) ==
  [ok |-> TRUE, node |-> node, names |-> names, heap |-> heap, log |-> log]

Err(error, names, heap, log) ==
  [ok |-> FALSE, error |-> error, names |-> names, heap |-> heap, log |-> log]

\* Rc::new(node) for the syntax node at path
Alloc(heap, path, node) == Insert(heap, path, node)

RECURSIVE bind(_, _, _, _, _)

\* `if let BoundNode::Export(export) = &bound_expression` (binding.rs:67, 99)
\* a variant of the Export test that also collects Lets; C6 tells the two
\* apart
IsExport_OrLet(node) == node.kind \in {"Export", "Let"}

IsExport(node) == node.kind = "Export"

RECURSIVE bind_expressions_Dropped(_, _, _, _, _, _, _, _)
\* a variant of the loop that does not push the bound expression, so that
\* the Rc it was given is dropped at the end of the iteration; C20 tells the
\* two apart
bind_expressions_Dropped(exprs, i, path, new_names, heap, log, expressions, exported_expressions) ==
  IF i > Len(exprs)
  THEN [ok |-> TRUE, expressions |-> expressions,
        exported_expressions |-> exported_expressions,
        names |-> new_names, heap |-> heap, log |-> log]
  ELSE LET r == bind(exprs[i], path \o <<i>>, new_names, heap, log)
       IN IF ~r.ok THEN r
          ELSE bind_expressions_Dropped(exprs, i + 1, path, r.names, r.heap, r.log,
                                        expressions, exported_expressions)

RECURSIVE bind_expressions(_, _, _, _, _, _, _, _)
\* the loop `for expression in &self.expressions` of AstFile::bind and
\* AstBlock::bind, from its i-th iteration on
bind_expressions(exprs, i, path, new_names, heap, log, expressions, exported_expressions) ==
  IF i > Len(exprs)
  THEN [ok |-> TRUE, expressions |-> expressions,
        exported_expressions |-> exported_expressions,
        names |-> new_names, heap |-> heap, log |-> log]
  ELSE LET r == bind(exprs[i], path \o <<i>>, new_names, heap, log)
       IN IF ~r.ok THEN r
          ELSE bind_expressions(exprs, i + 1, path, r.names, r.heap, r.log,
                                Append(expressions, r.node),
                                IF IsExport(r.heap[r.node])
                                THEN Insert(exported_expressions, r.heap[r.node].name, r.node)
                                ELSE exported_expressions)

\* the exported_types loop and the BoundBlock both binds end with
BoundBlock(location, r) ==
  [kind |-> "Block", location |-> location,
   expressions |-> r.expressions,
   exported_expressions |-> r.exported_expressions,
   block_type |-> TypeBlock([name \in DOMAIN r.exported_expressions |->
                    get_type(r.heap, Upgrade(r.heap, r.exported_expressions[name]))])]

\* impl BindingTrait for AstFile
AstFile_bind(ast, path, names, heap, log) ==
  LET r == bind_expressions(ast.expressions, 1, path, names, heap, log, <<>>, EmptyMap)
  IN IF ~r.ok THEN Err(r.error, names, r.heap, r.log)
     ELSE Ok(path, names, Alloc(r.heap, path, BoundBlock(AstGetLocation(ast, path), r)),
             Collected(r.log, path, r.heap, r.exported_expressions,
                       DOMAIN r.exported_expressions))

\* a block that binds its children in the caller's map instead of a clone
AstBlock_bind_shared(ast, path, names, heap, log) ==
  LET r == bind_expressions(ast.expressions, 1, path, names, heap, log, <<>>, EmptyMap)
  IN IF ~r.ok THEN Err(r.error, r.names, r.heap, r.log)
     ELSE Ok(path, r.names, Alloc(r.heap, path, BoundBlock(AstGetLocation(ast, path), r)),
             Collected(r.log, path, r.heap, r.exported_expressions,
                       DOMAIN r.exported_expressions))

\* a variant of AstBlock::bind whose new_names starts with the builtin alone
\* instead of a clone of names; C28 tells the two apart
AstBlock_bind_Fresh(ast, path, names, heap, log) ==
  LET new_names == [k \in DOMAIN names \cap {"print_integer"} |-> names[k]]
      r == bind_expressions(ast.expressions, 1, path, new_names, heap, log, <<>>, EmptyMap)
  IN IF ~r.ok THEN Err(r.error, names, r.heap, r.log)
     ELSE Ok(path, names, Alloc(r.heap, path, BoundBlock(AstGetLocation(ast, path), r)),
             Collected(r.log, path, r.heap, r.exported_expressions,
                       DOMAIN r.exported_expressions))

\* impl BindingTrait for AstBlock: new_names is a clone, names is untouched
AstBlock_bind(ast, path, names, heap, log) ==
  LET r == bind_expressions(ast.expressions, 1, path, names, heap, log, <<>>, EmptyMap)
  IN IF ~r.ok THEN Err(r.error, names, r.heap, r.log)
     ELSE Ok(path, names, Alloc(r.heap, path, BoundBlock(AstGetLocation(ast, path), r)),
             Collected(r.log, path, r.heap, r.exported_expressions,
                       DOMAIN r.exported_expressions))

\* a variant of AlreadyDefined whose note points at the definition being
\* bound instead of the earlier one; C2 tells the two apart
AlreadyDefined_NoteAtSelf(ast, path, name, names, heap) ==
  CompileError(AstGetLocation(ast, path), <<"DuplicateDefinition", name>>,
    <<CompileNote(<<AstGetLocation(ast, path)>>,
                  <<"was previously defined here", name>>)>>)

\* the Err both AstExport::bind and AstLet::bind build when
\* names.get(&name) is Some(expression)
AlreadyDefined(ast, path, name, names, heap) ==
  CompileError(AstGetLocation(ast, path), <<"DuplicateDefinition", name>>,
    <<CompileNote(<<get_location(heap, Upgrade(heap, names[name]))>>,
                  <<"was previously defined here", name>>)>>)

\* impl BindingTrait for AstExport
AstExport_bind(ast, path, names, heap, log) ==
  LET name == ast.name
      value == bind(ast.value, path \o <<1>>, names, heap, log)
  IN IF ~value.ok THEN value
     ELSE IF name \in DOMAIN value.names
       THEN Err(AlreadyDefined(ast, path, name, value.names, value.heap),
                value.names, value.heap,
                Append(value.log, Upgraded(path, value.names[name])))
       ELSE Ok(path, Insert(value.names, name, path),
               Alloc(value.heap, path,
                     [kind |-> "Export", location |-> AstGetLocation(ast, path),
                      name |-> name, value |-> Some(value.node)]),
               value.log)

\* a variant of AstLet::bind that leaves the name out of the scope; C4
\* tells the two apart
AstLet_bind_NoInsert(ast, path, names, heap, log) ==
  LET name == ast.name
      value == IF ast.value # None
               THEN bind(ast.value, path \o <<1>>, names, heap, log)
               ELSE Ok(<<>>, names, heap, log)
  IN IF ~value.ok THEN value
     ELSE IF name \in DOMAIN value.names
       THEN Err(AlreadyDefined(ast, path, name, value.names, value.heap),
                value.names, value.heap,
                Append(value.log, Upgraded(path, value.names[name])))
       ELSE Ok(path, value.names,
               Alloc(value.heap, path,
                     [kind |-> "Let", location |-> AstGetLocation(ast, path),
                      name |-> name,
                      value |-> IF ast.value # None THEN Some(value.node) ELSE None]),
               value.log)

\* impl BindingTrait for AstLet
AstLet_bind(ast, path, names, heap, log) ==
  LET name == ast.name
      value == IF ast.value # None
               THEN bind(ast.value, path \o <<1>>, names, heap, log)
               ELSE Ok(<<>>, names, heap, log)
  IN IF ~value.ok THEN value
     ELSE IF name \in DOMAIN value.names
       THEN Err(AlreadyDefined(ast, path, name, value.names, value.heap),
                value.names, value.heap,
                Append(value.log, Upgraded(path, value.names[name])))
       ELSE Ok(path, Insert(value.names, name, path),
               Alloc(value.heap, path,
                     [kind |-> "Let", location |-> AstGetLocation(ast, path),
                      name |-> name,
                      value |-> IF ast.value # None THEN Some(value.node) ELSE None]),
               value.log)

\* TokenKind::to_string of the operator tokens (token.rs:73-86)
TokenToString(kind) ==
  CASE kind = "Plus" -> "+"
    [] kind = "Minus" -> "-"
    [] kind = "Asterisk" -> "*"
    [] kind = "Slash" -> "/"
    [] kind = "ExclamationMark" -> "!"
    [] kind = "EqualEqual" -> "=="
    [] kind = "ExclamationMarkEqual" -> "!="
    [] kind = "LessThan" -> "<"
    [] kind = "GreaterThan" -> ">"
    [] kind = "LessThanEqual" -> "<="
    [] kind = "GreaterThanEqual" -> ">="

UnaryOperator(kind, operand, result) ==
  [kind |-> kind, operand |-> operand, result |-> result]

UNARY_OPERATORS ==
  << <<"Plus", UnaryOperator("Identity", TypeInteger, TypeInteger)>>,
     <<"Minus", UnaryOperator("Negation", TypeInteger, TypeInteger)>> >>

BinaryOperator(kind, left, right, result) ==
  [kind |-> kind, left |-> left, right |-> right, result |-> result]

BINARY_OPERATORS ==
  << <<"Plus", BinaryOperator("Addition", TypeInteger, TypeInteger, TypeInteger)>>,
     <<"Minus", BinaryOperator("Subtraction", TypeInteger, TypeInteger, TypeInteger)>>,
     <<"Asterisk", BinaryOperator("Multiplication", TypeInteger, TypeInteger, TypeInteger)>>,
     <<"Slash", BinaryOperator("Division", TypeInteger, TypeInteger, TypeInteger)>> >>

\* the first of the indices hits of a table, as the scanning loops with
\* `break` find it; 0 when there is none
FirstMatch(hits) ==
  IF hits = {} THEN 0 ELSE CHOOSE i \in hits : \A j \in hits : i <= j

\* the scan of AstUnary::bind (binding.rs:216-222)
FindUnaryOperator(token, operand_type) ==
  FirstMatch({i \in 1..Len(UNARY_OPERATORS) :
                /\ token = UNARY_OPERATORS[i][1]
                /\ UNARY_OPERATORS[i][2].operand = operand_type})

\* impl BindingTrait for AstUnary
AstUnary_bind(ast, path, names, heap, log) ==
  LET operand == bind(ast.operand, path \o <<1>>, names, heap, log)
  IN IF ~operand.ok THEN operand
     ELSE LET operand_type == get_type(operand.heap, operand.node)
              i == FindUnaryOperator(ast.operator_token, operand_type)
          IN IF i # 0
             THEN Ok(path, operand.names,
                     Alloc(operand.heap, path,
                           [kind |-> "Unary", location |-> AstGetLocation(ast, path),
                            operator |-> UNARY_OPERATORS[i][2], operand |-> operand.node]),
                     Typed(operand.log, path, operand.heap, operand.node))
             ELSE Err(CompileError(AstGetLocation(ast, path),
                        <<"OperatorNotFound", TokenToString(ast.operator_token), operand_type>>,
                        <<>>),
                      operand.names, operand.heap,
                      Typed(operand.log, path, operand.heap, operand.node))

\* a variant of the scan that does not look at the right operand's type; C7
\* tells the two apart
FindBinaryOperator_LeftOnly(token, left_type, right_type) ==
  FirstMatch({i \in 1..Len(BINARY_OPERATORS) :
                /\ token = BINARY_OPERATORS[i][1]
                /\ BINARY_OPERATORS[i][2].left = left_type})

\* the scan of AstBinary::bind (binding.rs:292-301)
FindBinaryOperator(token, left_type, right_type) ==
  FirstMatch({i \in 1..Len(BINARY_OPERATORS) :
                /\ token = BINARY_OPERATORS[i][1]
                /\ BINARY_OPERATORS[i][2].left = left_type
                /\ BINARY_OPERATORS[i][2].right = right_type})

\* a variant of AstBinary::bind that binds the right operand before the
\* left one; C9 tells the two apart
AstBinary_bind_RightFirst(ast, path, names, heap, log) ==
  LET right == bind(ast.right, path \o <<2>>, names, heap, log)
  IN IF ~right.ok THEN right
     ELSE LET left == bind(ast.left, path \o <<1>>, right.names, right.heap, right.log)
          IN IF ~left.ok THEN left
             ELSE LET left_type == get_type(left.heap, left.node)
                      right_type == get_type(left.heap, right.node)
                      i == FindBinaryOperator(ast.operator_token, left_type, right_type)
                  IN IF i # 0
                     THEN Ok(path, left.names,
                             Alloc(left.heap, path,
                                   [kind |-> "Binary", location |-> AstGetLocation(ast, path),
                                    left |-> left.node, operator |-> BINARY_OPERATORS[i][2],
                                    right |-> right.node]),
                             Typed(Typed(left.log, path, left.heap, left.node),
                                   path, left.heap, right.node))
                     ELSE Err(CompileError(AstGetLocation(ast, path),
                                <<"OperatorNotFound", TokenToString(ast.operator_token),
                                  left_type, right_type>>,
                                <<>>),
                              left.names, left.heap,
                              Typed(Typed(left.log, path, left.heap, left.node),
                                    path, left.heap, right.node))

\* impl BindingTrait for AstBinary
AstBinary_bind(ast, path, names, heap, log) ==
  LET left == bind(ast.left, path \o <<1>>, names, heap, log)
  IN IF ~left.ok THEN left
     ELSE LET right == bind(ast.right, path \o <<2>>, left.names, left.heap, left.log)
          IN IF ~right.ok THEN right
             ELSE LET left_type == get_type(right.heap, left.node)
                      right_type == get_type(right.heap, right.node)
                      i == FindBinaryOperator(ast.operator_token, left_type, right_type)
                  IN IF i # 0
                     THEN Ok(path, right.names,
                             Alloc(right.heap, path,
                                   [kind |-> "Binary", location |-> AstGetLocation(ast, path),
                                    left |-> left.node, operator |-> BINARY_OPERATORS[i][2],
                                    right |-> right.node]),
                             Typed(Typed(right.log, path, right.heap, left.node),
                                   path, right.heap, right.node))
                     ELSE Err(CompileError(AstGetLocation(ast, path),
                                <<"OperatorNotFound", TokenToString(ast.operator_token),
                                  left_type, right_type>>,
                                <<>>),
                              right.names, right.heap,
                              Typed(Typed(right.log, path, right.heap, left.node),
                                    path, right.heap, right.node))

\* impl BindingTrait for AstName
AstName_bind(ast, path, names, heap, log) ==
  LET name == ast.name
  IN IF name \in DOMAIN names
     THEN Ok(path, names,
             Alloc(heap, path,
                   [kind |-> "Name", location |-> AstGetLocation(ast, path),
                    name |-> name, resolved_expression |-> names[name]]),
             log)
     ELSE Err(CompileError(AstGetLocation(ast, path), <<"UndefinedName", name>>, <<>>),
              names, heap, log)

\* a variant of the range test that also rejects i64::MAX itself; C5 tells
\* the two apart
IntegerTooLarge_OffByOne(value) == ~NumLess(value, I64_MAX)

\* the test `value > i64::MAX as u128` (binding.rs:364)
IntegerTooLarge(value) == NumLess(I64_MAX, value)

\* impl BindingTrait for AstInteger
AstInteger_bind(ast, path, names, heap, log) ==
  LET value == ast.value
  IN IF IntegerTooLarge(value)
     THEN Err(CompileError(TokenLocation(path, "integer_token"),
                           <<"IntegerTooLarge", value>>, <<>>),
              names, heap, log)
     ELSE Ok(path, names,
             Alloc(heap, path,
                   [kind |-> "Integer", location |-> AstGetLocation(ast, path),
                    value |-> value]),
             log)

RECURSIVE bind_arguments_Unchecked(_, _, _, _, _, _, _, _)
\* a variant of the argument loop without the type comparison; C8 tells
\* the two apart
bind_arguments_Unchecked(ast, i, path, proc_type, names, heap, log, arguments) ==
  IF i > Len(ast.arguments)
  THEN [ok |-> TRUE, arguments |-> arguments, names |-> names, heap |-> heap, log |-> log]
  ELSE LET argument == bind(ast.arguments[i], path \o <<1 + i>>, names, heap, log)
       IN IF ~argument.ok THEN argument
          ELSE bind_arguments_Unchecked(ast, i + 1, path, proc_type, argument.names,
                                        argument.heap, argument.log,
                                        Append(arguments, argument.node))

RECURSIVE bind_arguments(_, _, _, _, _, _, _, _)
\* the loop over self.arguments of AstCall::bind (binding.rs:411-425),
\* from its i-th iteration on (i counts from 1)
bind_arguments(ast, i, path, proc_type, names, heap, log, arguments) ==
  IF i > Len(ast.arguments)
  THEN [ok |-> TRUE, arguments |-> arguments, names |-> names, heap |-> heap, log |-> log]
  ELSE LET argument == bind(ast.arguments[i], path \o <<1 + i>>, names, heap, log)
       IN IF ~argument.ok THEN argument
          ELSE IF get_type(argument.heap, argument.node) # proc_type.parameter_types[i]
            THEN Err(CompileError(TokenLocation(path, "close_parenthesis_token"),
                       <<"ArgumentTypeMismatch", proc_type.parameter_types[i],
                         get_type(argument.heap, argument.node)>>,
                       <<>>),
                     argument.names, argument.heap,
                     Typed(argument.log, path, argument.heap, argument.node))
            ELSE bind_arguments(ast, i + 1, path, proc_type, argument.names,
                                argument.heap,
                                Typed(argument.log, path, argument.heap, argument.node),
                                Append(arguments, argument.node))

\* impl BindingTrait for AstCall
AstCall_bind(ast, path, names, heap, log) ==
  LET operand == bind(ast.operand, path \o <<1>>, names, heap, log)
  IN IF ~operand.ok THEN operand
     ELSE LET operand_type == get_type(operand.heap, operand.node)
              typed == Typed(operand.log, path, operand.heap, operand.node)
          IN IF operand_type.kind # "Proc"
             THEN Err(CompileError(TokenLocation(path, "close_parenthesis_token"),
                        <<"NotCallable">>,
                        <<CompileNote(<<get_location(operand.heap, operand.node)>>,
                                      <<"The type was", operand_type>>)>>),
                      operand.names, operand.heap, typed)
             ELSE IF Len(operand_type.parameter_types) # Len(ast.arguments)
               THEN Err(CompileError(TokenLocation(path, "close_parenthesis_token"),
                          <<"ArityMismatch", Len(operand_type.parameter_types),
                            Len(ast.arguments)>>,
                          <<>>),
                        operand.names, operand.heap, typed)
               ELSE LET r == bind_arguments(ast, 1, path, operand_type, operand.names,
                                            operand.heap, typed, <<>>)
                    IN IF ~r.ok THEN r
                       ELSE Ok(path, r.names,
                               Alloc(r.heap, path,
                                     [kind |-> "Call", location |-> AstGetLocation(ast, path),
                                      operand |-> operand.node, arguments |-> r.arguments,
                                      proc_type |-> operand_type]),
                               r.log)

\* impl BindingTrait for Ast: the dispatch on the variant
bind(ast, path, names, heap, log) ==
  LET entered == Append(log, Called(path, names))
      r == CASE ast.kind = "File" -> AstFile_bind(ast, path, names, heap, entered)
             [] ast.kind = "Block" -> AstBlock_bind(ast, path, names, heap, entered)
             [] ast.kind = "Export" -> AstExport_bind(ast, path, names, heap, entered)
             [] ast.kind = "Let" -> AstLet_bind(ast, path, names, heap, entered)
             [] ast.kind = "Unary" -> AstUnary_bind(ast, path, names, heap, entered)
             [] ast.kind = "Binary" -> AstBinary_bind(ast, path, names, heap, entered)
             [] ast.kind = "Name" -> AstName_bind(ast, path, names, heap, entered)
             [] ast.kind = "Integer" -> AstInteger_bind(ast, path, names, heap, entered)
             [] ast.kind = "Call" -> AstCall_bind(ast, path, names, heap, entered)
  IN [r EXCEPT !.log = Append(@, Returned(path, r))]

\* bind_ast (binding.rs:28-33)
bind_ast(ast, names, heap) == bind(ast, <<>>, names, heap, <<>>)

(***************************************************************************)
(* Bytecode (bytecode.rs) and lowering (bytecode_compilation.rs).          *)
(* compile(heap, rc, bytecode) is node.compile(&mut bytecode): the vector  *)
(* after the call.                                                         *)
(***************************************************************************)
ValueVoid == [kind |-> "Void"]

ValueInteger(value) == [kind |-> "Integer", value |-> value]

ValueProcedure(code) == [kind |-> "Procedure", code |-> code]

\* the variants of enum Bytecode (bytecode.rs:4-18), by name
Bytecode ==
  {"Exit", "Push", "Pop", "Dup", "Call", "Return", "Load", "Store", "AddInteger",
   "SubInteger", "MulInteger", "DivInteger", "PrintInteger"}

Op(op) == [op |-> op]

Push(value) == [op |-> "Push", value |-> value]

Call(argument_count) == [op |-> "Call", argument_count |-> argument_count]

Load(name) == [op |-> "Load", name |-> name]

Store(name) == [op |-> "Store", name |-> name]

RECURSIVE compile(_, _, _)

RECURSIVE compile_block_expressions(_, _, _, _)
\* the loop of BoundBlock::compile, from its i-th expression on
compile_block_expressions(heap, expressions, i, bytecode) ==
  IF i > Len(expressions) THEN bytecode
  ELSE compile_block_expressions(heap, expressions, i + 1,
         Append(compile(heap, expressions[i], bytecode), Op("Pop")))

RECURSIVE compile_arguments(_, _, _, _)
\* the loop over self.arguments of BoundCall::compile
compile_arguments(heap, arguments, i, bytecode) ==
  IF i > Len(arguments) THEN bytecode
  ELSE compile_arguments(heap, arguments, i + 1, compile(heap, arguments[i], bytecode))

\* impl Compilable for BoundBlock
BoundBlock_compile(heap, node, bytecode) ==
  compile_block_expressions(heap, node.expressions, 1, bytecode)

\* impl Compilable for BoundExport
BoundExport_compile(heap, node, bytecode) ==
  Append(Append(compile(heap, node.value.rc, bytecode), Op("Dup")), Store(node.name))

\* impl Compilable for BoundLet
BoundLet_compile(heap, node, bytecode) ==
  Append(IF node.value # None
         THEN Append(compile(heap, node.value.rc, bytecode), Op("Dup"))
         ELSE Append(bytecode, Push(ValueVoid)),
         Store(node.name))

\* impl Compilable for BoundUnary
BoundUnary_compile(heap, node, bytecode) ==
  LET operand == compile(heap, node.operand, bytecode)
  IN CASE node.operator.kind = "Identity" -> operand
       [] node.operator.kind = "Negation" -> Append(operand, Op("NegateInteger"))

\* a variant of the instruction selection with addition and subtraction
\* exchanged; C10 tells the two apart
BinaryInstruction_Exchanged(kind) ==
  CASE kind = "Addition" -> Op("SubInteger")
    [] kind = "Subtraction" -> Op("AddInteger")
    [] kind = "Multiplication" -> Op("MulInteger")
    [] kind = "Division" -> Op("DivInteger")

\* the instruction of each BinaryOperatorKind (bytecode_compilation.rs:79-84)
BinaryInstruction(kind) ==
  CASE kind = "Addition" -> Op("AddInteger")
    [] kind = "Subtraction" -> Op("SubInteger")
    [] kind = "Multiplication" -> Op("MulInteger")
    [] kind = "Division" -> Op("DivInteger")

\* a variant of the lowering of a Binary that lowers the right operand
\* first; C30 tells the two apart
BoundBinary_compile_RightFirst(heap, node, bytecode) ==
  Append(compile(heap, node.left, compile(heap, node.right, bytecode)),
         BinaryInstruction(node.operator.kind))

\* impl Compilable for BoundBinary
BoundBinary_compile(heap, node, bytecode) ==
  Append(compile(heap, node.right, compile(heap, node.left, bytecode)),
         BinaryInstruction(node.operator.kind))

\* impl Compilable for BoundName
BoundName_compile(heap, node, bytecode) == Append(bytecode, Load(node.name))

\* impl Compilable for BoundInteger
BoundInteger_compile(heap, node, bytecode) ==
  Append(bytecode, Push(ValueInteger(AsI64(node.value))))

\* impl Compilable for BoundCall
BoundCall_compile(heap, node, bytecode) ==
  Append(compile_arguments(heap, node.arguments, 1, compile(heap, node.operand, bytecode)),
         Call(Len(node.arguments)))

\* impl Compilable for BoundPrintInteger
BoundPrintInteger_compile(heap, node, bytecode) ==
  Append(bytecode, Push(ValueProcedure(<<Op("PrintInteger"), Op("Return")>>)))

\* impl Compilable for BoundNode: the dispatch on the variant
compile(heap, rc, bytecode) ==
  LET node == heap[rc]
  IN CASE node.kind = "Block" -> BoundBlock_compile(heap, node, bytecode)
       [] node.kind = "Export" -> BoundExport_compile(heap, node, bytecode)
       [] node.kind = "Let" -> BoundLet_compile(heap, node, bytecode)
       [] node.kind = "Unary" -> BoundUnary_compile(heap, node, bytecode)
       [] node.kind = "Binary" -> BoundBinary_compile(heap, node, bytecode)
       [] node.kind = "Name" -> BoundName_compile(heap, node, bytecode)
       [] node.kind = "Integer" -> BoundInteger_compile(heap, node, bytecode)
       [] node.kind = "Call" -> BoundCall_compile(heap, node, bytecode)
       [] node.kind = "PrintInteger" -> BoundPrintInteger_compile(heap, node, bytecode)

\* compile_bytecode (bytecode_compilation.rs:16-18)
compile_bytecode(heap, node, bytecode) == compile(heap, node, bytecode)

(***************************************************************************)
(* The state of a run: main's locals, then the executor's.                 *)
(*   source     the text read from the file, <<>> once parse_ast_or_error  *)
(*              has returned                                               *)
(*   lexer      the Lexer of a caller that takes tokens one by one, <<>>   *)
(*              when there is none                                         *)
(*   tokens     the tokens that caller has taken so far                    *)
(*   ast        the parsed file (parse_ast_or_error's result)              *)
(*   pc         main's position: "bind", "report_compile_error",           *)
(*              "compile", "execute", "running" (inside execute_bytecode), *)
(*              "done" (the process has ended)                             *)
(*   names      main's names map                                           *)
(*   heap       the bound nodes allocated so far                           *)
(*   bound_file the result of bind_ast, <<>> before it returns             *)
(*   bytecode   main's bytecode vector                                     *)
(*   frames     the active execute_bytecode invocations, innermost last:   *)
(*              each its bytecode, ip, stack (of cells) and vars           *)
(*   cells      the Rc<RefCell<BytecodeValue>> cells created so far; a     *)
(*              cell is its index                                          *)
(*   output     the lines written to standard output                       *)
(*   stderr     the compile errors reported                                *)
(*   status     "running", "exit 0", "exit 1" or "panic"                   *)
(*   fault      the panic's cause, "" when there is none                   *)
(***************************************************************************)
VARIABLES source, lexer, tokens, ast, pc, names, heap, bound_file, bytecode, frames, cells, output,
          stderr, status, fault

vars ==
  <<source, lexer, tokens, ast, pc, names, heap, bound_file, bytecode, frames, cells, output,
    stderr, status, fault>>

\* main.rs:151-161: names holds print_integer, a Weak to main's own Rc
MainNames == Insert(EmptyMap, "print_integer", BuiltinAddress)

MainHeap == Insert(EmptyMap, BuiltinAddress, BoundPrintInteger)

\* main.rs:163: bind_ast(&Ast::File(file), &mut names)
Bind ==
  /\ pc = "bind"
  /\ LET r == bind_ast(ast, names, heap)
     IN /\ bound_file' = <<r>>
        /\ names' = r.names
        /\ heap' = r.heap
        /\ pc' = IF r.ok THEN "compile" ELSE "report_compile_error"
  /\ UNCHANGED <<source, lexer, tokens, ast, bytecode, frames, cells, output, stderr, status, fault>>

\* report_compile_error (main.rs:69-89): write the error, exit(1)
ReportCompileError ==
  /\ pc = "report_compile_error"
  /\ stderr' = Append(stderr, bound_file[1].error)
  /\ pc' = "done"
  /\ status' = "exit 1"
  /\ UNCHANGED <<source, lexer, tokens, ast, names, heap, bound_file, bytecode, frames, cells, output, fault>>

\* main.rs:166-170: the prologue, the file's code, Exit
Compile ==
  /\ pc = "compile"
  /\ bytecode' =
       Append(compile_bytecode(heap, bound_file[1].node,
                Append(compile_bytecode(heap, BuiltinAddress, <<>>), Store("print_integer"))),
              Op("Exit"))
  /\ pc' = "execute"
  /\ UNCHANGED <<source, lexer, tokens, ast, names, heap, bound_file, frames, cells, output, stderr, status, fault>>

\* a variant of the entry that starts from the environment of the calling
\* invocation; C15 tells the two apart
NewFrame_Inherit(code, stack, cell) ==
  [bytecode |-> code, ip |-> 0, stack |-> <<cell>> \o stack,
   vars |-> IF frames = <<>> THEN EmptyMap ELSE frames[Len(frames)].vars]

\* execute_bytecode's entry (execute.rs:5-11): ip = 0, empty vars, and a
\* fresh Void cell inserted at the bottom of the given stack
NewFrame(code, stack, cell) ==
  [bytecode |-> code, ip |-> 0, stack |-> <<cell>> \o stack, vars |-> EmptyMap]

\* main.rs:171: execute_bytecode(&bytecode, Vec::new())
Execute ==
  /\ pc = "execute"
  /\ cells' = Append(cells, ValueVoid)
  /\ frames' = <<NewFrame(bytecode, <<>>, Len(cells) + 1)>>
  /\ pc' = "running"
  /\ UNCHANGED <<source, lexer, tokens, ast, names, heap, bound_file, bytecode, output, stderr, status, fault>>

Top == frames[Len(frames)]

\* whether the innermost invocation is at an instruction `op`
At(op) ==
  /\ pc = "running"
  /\ Top.ip < Len(Top.bytecode)
  /\ Top.bytecode[Top.ip + 1].op = op

Instruction == Top.bytecode[Top.ip + 1]

Last(stack) == stack[Len(stack)]

Front(stack) == SubSeq(stack, 1, Len(stack) - 1)

\* a panic ends the process
Panic(cause) ==
  /\ pc' = "done"
  /\ status' = "panic"
  /\ fault' = cause
  /\ UNCHANGED <<source, lexer, tokens, ast, names, heap, bound_file, bytecode, frames, cells, output, stderr>>

\* the innermost invocation goes on with this stack, vars, cells and
\* output, and `ip += 1` (execute.rs:79)
Continue(stack, newvars, newcells, newoutput) ==
  /\ frames' = [frames EXCEPT ![Len(frames)] =
                  [@ EXCEPT !.ip = @ + 1, !.stack = stack, !.vars = newvars]]
  /\ cells' = newcells
  /\ output' = newoutput
  /\ UNCHANGED <<source, lexer, tokens, ast, pc, names, heap, bound_file, bytecode, stderr, status, fault>>

\* Bytecode::Exit => return None.  main ignores the result and returns; a
\* calling invocation unwraps it (execute.rs:31).
ExecExit ==
  /\ At("Exit")
  /\ IF Len(frames) = 1
     THEN /\ pc' = "done"
          /\ status' = "exit 0"
          /\ frames' = <<>>
          /\ UNCHANGED <<source, lexer, tokens, ast, names, heap, bound_file, bytecode, cells, output, stderr, fault>>
     ELSE Panic("called Option::unwrap() on a None value")

\* Bytecode::Push(value)
ExecPush ==
  /\ At("Push")
  /\ Continue(Append(Top.stack, Len(cells) + 1), Top.vars,
              Append(cells, Instruction.value), output)

\* Bytecode::Pop
ExecPop ==
  /\ At("Pop")
  /\ IF Top.stack = <<>> THEN Panic("pop of an empty stack")
     ELSE Continue(Front(Top.stack), Top.vars, cells, output)

\* a variant of Dup that pushes a copy of the top cell; C19 tells the two
\* apart
ExecDup_Copy ==
  /\ At("Dup")
  /\ IF Top.stack = <<>> THEN Panic("last of an empty stack")
     ELSE Continue(Append(Top.stack, Len(cells) + 1), Top.vars,
                   Append(cells, cells[Last(Top.stack)]), output)

\* Bytecode::Dup
ExecDup ==
  /\ At("Dup")
  /\ IF Top.stack = <<>> THEN Panic("last of an empty stack")
     ELSE Continue(Append(Top.stack, Last(Top.stack)), Top.vars, cells, output)

\* new_stack of Bytecode::Call: argument_count cells popped one at a time
\* and pushed in that order
PoppedArguments(stack, argument_count) ==
  [i \in 1..argument_count |-> stack[Len(stack) + 1 - i]]

\* Bytecode::Call, up to the entry of the callee
ExecCall ==
  /\ At("Call")
  /\ LET n == Instruction.argument_count
     IN IF Len(Top.stack) < n + 1 THEN Panic("pop of an empty stack")
        ELSE LET new_stack == PoppedArguments(Top.stack, n)
                 procedure == Top.stack[Len(Top.stack) - n]
                 rest == SubSeq(Top.stack, 1, Len(Top.stack) - n - 1)
             IN IF cells[procedure].kind # "Procedure"
                THEN Panic("unreachable: unwrap_procedure")
                ELSE /\ cells' = Append(cells, ValueVoid)
                     /\ frames' = Append([frames EXCEPT ![Len(frames)].stack = rest],
                                         NewFrame(cells[procedure].code, new_stack,
                                                  Len(cells) + 1))
                     /\ UNCHANGED <<source, lexer, tokens, ast, pc, names, heap, bound_file, bytecode, output,
                                    stderr, status, fault>>

\* Bytecode::Return => return Some(stack.pop().unwrap()); the caller pushes
\* the cell and goes on (execute.rs:30-33), main ignores it and returns
ExecReturn ==
  /\ At("Return")
  /\ IF Top.stack = <<>> THEN Panic("pop of an empty stack")
     ELSE IF Len(frames) = 1
       THEN /\ pc' = "done"
            /\ status' = "exit 0"
            /\ frames' = <<>>
            /\ UNCHANGED <<source, lexer, tokens, ast, names, heap, bound_file, bytecode, cells, output, stderr, fault>>
       ELSE /\ frames' = [Front(frames) EXCEPT ![Len(frames) - 1] =
                            [@ EXCEPT !.ip = @ + 1,
                                      !.stack = Append(@, Last(Top.stack))]]
            /\ UNCHANGED <<source, lexer, tokens, ast, pc, names, heap, bound_file, bytecode, cells, output,
                           stderr, status, fault>>

\* Bytecode::Load(name)
ExecLoad ==
  /\ At("Load")
  /\ IF Instruction.name \notin DOMAIN Top.vars
     THEN Panic("called Option::unwrap() on a None value")
     ELSE Continue(Append(Top.stack, Top.vars[Instruction.name]), Top.vars, cells, output)

\* Bytecode::Store(name)
ExecStore ==
  /\ At("Store")
  /\ IF Top.stack = <<>> THEN Panic("pop of an empty stack")
     ELSE Continue(Front(Top.stack), Insert(Top.vars, Instruction.name, Last(Top.stack)),
                   cells, output)

\* One outcome of an i64 operation: fault is "" and value the result, or
\* fault is the panic's cause.
Value(value) == [fault |-> "", value |-> value]

Fault(cause) == [fault |-> cause, value |-> Small(0)]

\* +, - and * on i64: the result when it fits; otherwise the panic of a
\* build with overflow checks or the wrapped result of a build without
Checked(exact, fits, cause) ==
  IF fits THEN {Value(exact)} ELSE {Fault(cause), Value(WrapI64(exact))}

\* a variant of the division that yields 0 for a zero divisor; C12 tells
\* the two apart
Divided_Silent(a, b) ==
  IF b = Small(0) THEN {Value(Small(0))}
  ELSE IF a = I64_MIN /\ b = Small(-1) THEN {Fault("attempt to divide with overflow")}
  ELSE {Value(NumDiv(a, b))}

\* a / b on i64 (execute.rs:71): it panics on a zero divisor and on MIN / -1
Divided(a, b) ==
  IF b = Small(0) THEN {Fault("attempt to divide by zero")}
  ELSE IF a = I64_MIN /\ b = Small(-1) THEN {Fault("attempt to divide with overflow")}
  ELSE {Value(NumDiv(a, b))}

\* what `a op b` can evaluate to (execute.rs:47, 55, 63, 71)
Outcomes(op, a, b) ==
  CASE op = "AddInteger" ->
         Checked(NumAdd(a, b), InI64(NumAdd(a, b)), "attempt to add with overflow")
    [] op = "SubInteger" ->
         Checked(NumSub(a, b), InI64(NumSub(a, b)), "attempt to subtract with overflow")
    [] op = "MulInteger" ->
         Checked(NumMulLow(a, b), NumMulFits(a, b), "attempt to multiply with overflow")
    [] op = "DivInteger" -> Divided(a, b)

\* a variant of the arithmetic arms that takes the operands in the order
\* it pops them; C29 tells the two apart
Arithmetic_Exchanged(op) ==
  IF Len(Top.stack) < 2 THEN Panic("pop of an empty stack")
  ELSE LET a == Top.stack[Len(Top.stack)]
           b == Top.stack[Len(Top.stack) - 1]
           rest == SubSeq(Top.stack, 1, Len(Top.stack) - 2)
       IN IF cells[a].kind # "Integer" \/ cells[b].kind # "Integer"
          THEN Panic("unreachable: unwrap_integer")
          ELSE \E o \in Outcomes(op, cells[a].value, cells[b].value) :
                 IF o.fault # "" THEN Panic(o.fault)
                 ELSE Continue(Append(rest, Len(cells) + 1), Top.vars,
                               Append(cells, ValueInteger(o.value)), output)

\* the four arithmetic arms (execute.rs:43-73): pop b, pop a, push a fresh
\* cell holding a op b
Arithmetic(op) ==
  IF Len(Top.stack) < 2 THEN Panic("pop of an empty stack")
  ELSE LET b == Top.stack[Len(Top.stack)]
           a == Top.stack[Len(Top.stack) - 1]
           rest == SubSeq(Top.stack, 1, Len(Top.stack) - 2)
       IN IF cells[a].kind # "Integer" \/ cells[b].kind # "Integer"
          THEN Panic("unreachable: unwrap_integer")
          ELSE \E o \in Outcomes(op, cells[a].value, cells[b].value) :
                 IF o.fault # "" THEN Panic(o.fault)
                 ELSE Continue(Append(rest, Len(cells) + 1), Top.vars,
                               Append(cells, ValueInteger(o.value)), output)

\* Bytecode::AddInteger
ExecAddInteger ==
  /\ At("AddInteger")
  /\ Arithmetic("AddInteger")

\* Bytecode::SubInteger
ExecSubInteger ==
  /\ At("SubInteger")
  /\ Arithmetic("SubInteger")

\* Bytecode::MulInteger
ExecMulInteger ==
  /\ At("MulInteger")
  /\ Arithmetic("MulInteger")

\* Bytecode::DivInteger
ExecDivInteger ==
  /\ At("DivInteger")
  /\ Arithmetic("DivInteger")

\* a variant of the print that writes its line before the earlier ones; C18
\* tells the two apart
ExecPrintInteger_First ==
  /\ At("PrintInteger")
  /\ IF Top.stack = <<>> THEN Panic("pop of an empty stack")
     ELSE IF cells[Last(Top.stack)].kind # "Integer"
       THEN Panic("unreachable: unwrap_integer")
       ELSE Continue(Front(Top.stack), Top.vars, cells,
                     <<cells[Last(Top.stack)].value>> \o output)

\* Bytecode::PrintInteger
ExecPrintInteger ==
  /\ At("PrintInteger")
  /\ IF Top.stack = <<>> THEN Panic("pop of an empty stack")
     ELSE IF cells[Last(Top.stack)].kind # "Integer"
       THEN Panic("unreachable: unwrap_integer")
       ELSE Continue(Front(Top.stack), Top.vars, cells,
                     Append(output, cells[Last(Top.stack)].value))

Next ==
  \/ Bind
  \/ ReportCompileError
  \/ Compile
  \/ Execute
  \/ ExecExit
  \/ ExecPush
  \/ ExecPop
  \/ ExecDup
  \/ ExecCall
  \/ ExecReturn
  \/ ExecLoad
  \/ ExecStore
  \/ ExecAddInteger
  \/ ExecSubInteger
  \/ ExecMulInteger
  \/ ExecDivInteger
  \/ ExecPrintInteger

Start(file) ==
  /\ source = <<>>
  /\ lexer = <<>>
  /\ tokens = <<>>
  /\ ast = file
  /\ pc = "bind"
  /\ names = MainNames
  /\ heap = MainHeap
  /\ bound_file = <<>>
  /\ bytecode = <<>>
  /\ frames = <<>>
  /\ cells = <<>>
  /\ output = <<>>
  /\ stderr = <<>>
  /\ status = "running"
  /\ fault = ""

(***************************************************************************)
(* The files a run starts from: every syntax tree below is one the parser  *)
(* builds from some source text (let and export are primary expressions,   *)
(* and parentheses allow any nesting of operators).                        *)
(***************************************************************************)
\* small literals are 0..MaxLit
MaxLit == 3

\* a file has at most MaxFileLen top-level statements
MaxFileLen == 3

\* a block has at most MaxBlockLen statements
MaxBlockLen == 2

\* a call has at most MaxArgs arguments
MaxArgs == 2

SeqsUpTo(S, n) == UNION {[1..k -> S] : k \in 0..n}

SmallLits == {Small(d) : d \in 0..MaxLit}

\* u128 literals around 2^63 and 2^64 as well as the small ones
LitValues == SmallLits \cup {Num(k, d) : k \in 1..2, d \in -MaxLit..MaxLit}

\* i64 literals next to the ceiling
CeilingLits == {Num(1, -d) : d \in 1..MaxLit}

One == AstInteger(Small(1))

PrintInteger(argument) == AstCall(AstName("print_integer"), <<argument>>)

ScopeNames == {"a", "b"}

\* definitions and uses of the names
Statements ==
  {AstLet(n, None) : n \in ScopeNames}
    \cup {AstLet(n, One) : n \in ScopeNames}
    \cup {AstExport(n, One) : n \in ScopeNames}
    \cup {AstName(n) : n \in ScopeNames}

\* statements only
FlatFiles == {AstFile(body) : body \in SeqsUpTo(Statements, MaxFileLen)}

\* a block, with or without a statement before it and one after it
BlockFiles ==
  {AstFile(pre \o <<AstBlock(body)>> \o post) :
     pre \in SeqsUpTo(Statements, 1), body \in SeqsUpTo(Statements, MaxBlockLen),
     post \in SeqsUpTo(Statements, 1)}

\* two sibling blocks, and a block in a block
NestedFiles ==
  {AstFile(<<AstBlock(first), AstBlock(second)>>) :
     first \in SeqsUpTo(Statements, 1), second \in SeqsUpTo(Statements, 1)}
    \cup {AstFile(<<outer, AstBlock(<<AstBlock(<<inner>>), after>>)>>) :
            outer \in Statements, inner \in Statements, after \in Statements}

\* what a let or an export may have as its value
Values ==
  {One, AstName("print_integer"), PrintInteger(One)}
    \cup Statements
    \cup {AstBlock(body) : body \in SeqsUpTo(Statements, 1)}

Definitions ==
  {AstLet(n, v) : n \in ScopeNames, v \in Values}
    \cup {AstExport(n, v) : n \in ScopeNames, v \in Values}

\* a definition with such a value, alone, before or after a statement
ValueFiles ==
  {AstFile(<<d>>) : d \in Definitions}
    \cup {AstFile(<<d, s>>) : d \in Definitions, s \in Statements}
    \cup {AstFile(<<s, d>>) : d \in Definitions, s \in Statements}

UnaryTokens == {"Plus", "Minus", "ExclamationMark"}

BinaryTokens ==
  {"Plus", "Minus", "Asterisk", "Slash", "EqualEqual", "ExclamationMarkEqual",
   "LessThan", "GreaterThan", "LessThanEqual", "GreaterThanEqual"}

\* operands of every type, and operands that do not bind
Operands ==
  {One, AstInteger(Num(1, 0)), AstName("a"), AstName("print_integer"),
   AstBlock(<<>>), AstBlock(<<AstExport("a", One)>>), AstLet("a", None),
   AstLet("a", One), AstUnary("Minus", One), AstBinary(One, "Plus", One),
   PrintInteger(One)}

\* one operator applied to such operands
OperatorFiles ==
  {AstFile(<<AstUnary(t, x)>>) : t \in UnaryTokens, x \in Operands}
    \cup {AstFile(<<AstBinary(x, t, y)>>) : x \in Operands, t \in BinaryTokens, y \in Operands}

Callees ==
  {AstName("print_integer"), AstName("a"), One, AstBlock(<<>>), PrintInteger(One)}

Arguments ==
  {One, AstInteger(Num(1, 0)), AstName("a"), AstName("print_integer"),
   AstBlock(<<>>), AstLet("a", None), AstLet("a", One)}

\* one call
CallFiles ==
  {AstFile(<<AstCall(f, arguments)>>) :
     f \in Callees, arguments \in SeqsUpTo(Arguments, MaxArgs)}

ArithmeticTokens == {"Plus", "Minus", "Asterisk", "Slash"}

SmallIntegers == {AstInteger(v) : v \in SmallLits}

Arithmetic1 ==
  {AstBinary(x, t, y) : x \in SmallIntegers, t \in ArithmeticTokens, y \in SmallIntegers}

\* arithmetic over small literals with up to two operators
ArithmeticExprs ==
  SmallIntegers \cup Arithmetic1
    \cup {AstBinary(x, t, y) : x \in Arithmetic1, t \in ArithmeticTokens, y \in SmallIntegers}
    \cup {AstBinary(x, t, y) : x \in SmallIntegers, t \in ArithmeticTokens, y \in Arithmetic1}

\* print_integer(e), e arithmetic
ArithmeticFiles == {AstFile(<<PrintInteger(e)>>) : e \in ArithmeticExprs}

\* a literal of any size, alone, printed, or named
LiteralFiles ==
  {AstFile(<<AstInteger(v)>>) : v \in LitValues}
    \cup {AstFile(<<PrintInteger(AstInteger(v))>>) : v \in LitValues}
    \cup {AstFile(<<AstLet("a", AstInteger(v)), PrintInteger(AstName("a"))>>) :
            v \in LitValues}

\* print_integer(x op y) next to the i64 ceiling
CeilingFiles ==
  {AstFile(<<PrintInteger(AstBinary(AstInteger(x), t, AstInteger(y)))>>) :
     x \in SmallLits \cup CeilingLits, t \in {"Plus", "Minus", "Asterisk"},
     y \in SmallLits \cup CeilingLits}

\* print_integer(+v) and print_integer(-v)
UnaryFiles ==
  {AstFile(<<PrintInteger(AstUnary(t, AstInteger(v)))>>) :
     t \in {"Plus", "Minus"}, v \in SmallLits}

\* print_integer(v) several times
PrintFiles ==
  {AstFile(body) : body \in SeqsUpTo({PrintInteger(x) : x \in SmallIntegers}, MaxFileLen)}

\* statements whose lowering leaves the stack as deep as it found it or
\* deeper, and definitions of a and f
Preludes ==
  {AstLet("a", None), AstBlock(<<>>), AstLet("a", AstBlock(<<>>)), AstLet("a", One),
   AstExport("a", One), AstLet("f", AstName("print_integer")),
   AstBlock(<<AstLet("a", One)>>), AstLet("b", AstLet("a", One))}

\* uses of a and f where an Integer or a procedure is needed
IntegerUses ==
  {PrintInteger(AstName("a")), AstBinary(AstName("a"), "Plus", One),
   PrintInteger(AstBinary(AstName("a"), "Asterisk", AstName("a"))),
   AstCall(AstName("f"), <<One>>), AstCall(AstName("f"), <<AstName("a")>>),
   AstCall(AstName("a"), <<One>>)}

\* two such statements, then such a use
SoundnessFiles ==
  {AstFile(<<s1, s2, u>>) : s1 \in Preludes, s2 \in Preludes, u \in IntegerUses}

Programs ==
  FlatFiles \cup BlockFiles \cup NestedFiles \cup ValueFiles \cup OperatorFiles
    \cup CallFiles \cup ArithmeticFiles \cup LiteralFiles \cup CeilingFiles
    \cup UnaryFiles \cup PrintFiles \cup SoundnessFiles

Init == \E file \in Programs : Start(file)

Spec == Init /\ [][Next]_vars

(***************************************************************************)
(* execute_bytecode on its own (execute.rs:5): the function is public and  *)
(* takes any instruction sequence, so its behaviour on sequences that      *)
(* lowering never produces (calls with several arguments, callees that     *)
(* load, store, exit or run off their end) is explored from instruction    *)
(* sequences given directly, with the empty stack main passes.             *)
(***************************************************************************)
\* a variant of the fetch past the end that ends the run quietly; C16 tells
\* the two apart
ExecIndexOutOfBounds_Quiet ==
  /\ pc = "running"
  /\ frames[Len(frames)].ip >= Len(frames[Len(frames)].bytecode)
  /\ pc' = "done"
  /\ status' = "exit 0"
  /\ UNCHANGED <<source, lexer, tokens, ast, names, heap, bound_file, bytecode, frames, cells, output, stderr, fault>>

\* `&bytecode[ip]` with ip past the end (execute.rs:13): the index panics.
\* A lowered file ends in Exit and print_integer's code in Return, so this
\* arm is reached from directly given sequences only.
ExecIndexOutOfBounds ==
  /\ pc = "running"
  /\ Top.ip >= Len(Top.bytecode)
  /\ Panic("index out of bounds")

PushInteger(v) == Push(ValueInteger(Small(v)))

\* the bodies of the procedures
CalleeCodes ==
  {<<Op("PrintInteger"), Op("Return")>>,
   <<Op("SubInteger"), Op("Return")>>,
   <<Op("MulInteger"), Op("Return")>>,
   <<Op("DivInteger"), Op("Return")>>,
   <<Op("Dup"), Op("AddInteger"), Op("Return")>>,
   <<Op("Return")>>,
   <<Load("x"), Op("Return")>>,
   <<Store("x"), Load("x"), Op("Return")>>,
   <<Op("Exit")>>,
   <<Op("Pop")>>,
   <<Push(ValueProcedure(<<Op("Exit")>>)), Call(0), Op("Return")>>}

\* what the caller does before it pushes the procedure
Setups == {<<>>, <<PushInteger(1), Store("x")>>}

\* what the caller does after the call
Afters ==
  {<<Op("Exit")>>,
   <<Op("PrintInteger"), Op("Exit")>>,
   <<Op("Pop"), Load("x"), Op("PrintInteger"), Op("Exit")>>,
   <<Op("Return")>>,
   <<>>}

ArgumentPushes == SeqsUpTo({PushInteger(v) : v \in 0..MaxLit}, MaxArgs)

\* setup; push a procedure; push its arguments; call it; go on
CallPrograms ==
  {setup \o <<Push(ValueProcedure(code))>> \o arguments \o <<Call(Len(arguments))>> \o after :
     setup \in Setups, code \in CalleeCodes, arguments \in ArgumentPushes, after \in Afters}

\* i64 operands: small ones of both signs, and the two ends of the range
ArithmeticOperands == {Small(-7), Small(-2), Small(0), Small(2), Small(7), I64_MAX, I64_MIN}

\* push a, push b, operate, print; the quotients are those NumDiv can write
ArithmeticPrograms ==
  {<<Push(ValueInteger(t[1])), Push(ValueInteger(t[2])), Op(t[3]), Op("PrintInteger"), Op("Exit")>> :
     t \in {u \in ArithmeticOperands \X ArithmeticOperands
                   \X {"AddInteger", "SubInteger", "MulInteger", "DivInteger"} :
              u[3] = "DivInteger" => NumDivRepresentable(u[1], u[2])}}

StartExecute(code) ==
  /\ source = <<>>
  /\ lexer = <<>>
  /\ tokens = <<>>
  /\ ast = AstFile(<<>>)
  /\ pc = "execute"
  /\ names = MainNames
  /\ heap = MainHeap
  /\ bound_file = <<>>
  /\ bytecode = code
  /\ frames = <<>>
  /\ cells = <<>>
  /\ output = <<>>
  /\ stderr = <<>>
  /\ status = "running"
  /\ fault = ""

ExecuteInit == \E code \in CallPrograms \cup ArithmeticPrograms : StartExecute(code)

ExecuteNext ==
  \/ Execute
  \/ ExecExit
  \/ ExecPush
  \/ ExecPop
  \/ ExecDup
  \/ ExecCall
  \/ ExecReturn
  \/ ExecLoad
  \/ ExecStore
  \/ ExecAddInteger
  \/ ExecSubInteger
  \/ ExecMulInteger
  \/ ExecDivInteger
  \/ ExecPrintInteger
  \/ ExecIndexOutOfBounds

ExecuteSpec == ExecuteInit /\ [][ExecuteNext]_vars

(***************************************************************************)
(* The lexer and the parser on their own: the callers that take tokens one *)
(* by one until EndOfFile or an Err (as main.rs:186-229 does), and the     *)
(* dump_ast command (main.rs:105-114), which parses a file and prints the  *)
(* tree.  The sources are integer literals in every base, binary           *)
(* expressions over every binary operator, and files of let, export and    *)
(* block statements in several layouts of newlines.                        *)
(***************************************************************************)
MaxDigits == 2

MaxOperators == 2

MaxStatements == 2

MaxChildren == 2

LiteralPrefixes == {<<>>, <<"0", "b">>, <<"0", "o">>, <<"0", "d">>, <<"0", "x">>}

\* digits below and at every base, letters in both cases, the separator
DigitChars == {"0", "1", "2", "7", "8", "9", "a", "F", "g", "_"}

LiteralBodies == SeqsUpTo(DigitChars, MaxDigits)

\* a literal starts with a decimal digit (lexer.rs:192)
LiteralSources ==
  {t[1] \o t[2] : t \in {u \in LiteralPrefixes \X LiteralBodies :
                           u[1] \o u[2] # <<>> /\ (u[1] \o u[2])[1] \in Elements(DecimalDigits)}}

\* the source of lexer_tests::integer (main.rs:199)
IntegerTestSource ==
  <<"1", "2", "3", " ",
    "0", "x", "8", "5", "6", " ",
    "0", "d", "5", "4", "3", " ",
    "0", "b", "0", "1", "0", "0", "1", "0", "1", " ",
    "0", "o", "5", "6", "7", "4", " ",
    "0", "b", "1", "3", "5">>

OperatorTexts ==
  {<<"+">>, <<"-">>, <<"*">>, <<"/">>, <<"=", "=">>, <<"!", "=">>, <<"<">>, <<">">>,
   <<"<", "=">>, <<">", "=">>}

OperandTexts == {<<<<"1">>, <<"2">>, <<"3">>, <<"4">>>>, <<<<"a">>, <<"b">>, <<"c">>, <<"d">>>>}

RECURSIVE ExpressionText(_, _, _)
\* operand 1, operator 1, operand 2, ..., with a space around each operator
ExpressionText(operands, operators, i) ==
  IF i > Len(operators) THEN operands[i]
  ELSE operands[i] \o <<" ">> \o operators[i] \o <<" ">>
         \o ExpressionText(operands, operators, i + 1)

Operators == UNION {[1..k -> OperatorTexts] : k \in 1..MaxOperators}

ExpressionSources ==
  {ExpressionText(t[1], t[2], 1) : t \in OperandTexts \X Operators}

\* the text of a statement and the syntax tree it stands for
Statement(text, node) == [text |-> text, node |-> node]

Five == AstInteger(Small(5))

SimpleStatements ==
  {Statement(<<"l", "e", "t", " ", "a">>, AstLet("a", None)),
   Statement(<<"l", "e", "t", " ", "b", " ", "=", " ", "5">>, AstLet("b", Five)),
   Statement(<<"e", "x", "p", "o", "r", "t", " ", "b", " ", "=", " ", "5">>, AstExport("b", Five)),
   Statement(<<"5">>, Five)}

RECURSIVE Lines(_, _)
\* each text on a line of its own, indented
Lines(statements, i) ==
  IF i > Len(statements) THEN <<>>
  ELSE <<"\t">> \o statements[i].text \o <<"\n">> \o Lines(statements, i + 1)

\* { and } around the children, one per line; {} when there are none
BlockText(statements) ==
  IF statements = <<>> THEN <<"{", "}">>
  ELSE <<"{", "\n">> \o Lines(statements, 1) \o <<"}">>

Nodes(statements) == [i \in 1..Len(statements) |-> statements[i].node]

BlockStatements ==
  UNION {{Statement(<<"l", "e", "t", " ", "f", "o", "o", " ", "=", "\n">> \o BlockText(children),
                    AstLet("foo", AstBlock(Nodes(children)))),
          Statement(<<"e", "x", "p", "o", "r", "t", " ", "f", "o", "o", " ", "=", "\n">> \o BlockText(children),
                    AstExport("foo", AstBlock(Nodes(children))))} :
           children \in SeqsUpTo(SimpleStatements, MaxChildren)}

\* the newlines before the first statement, between two statements and
\* after the last one
Layouts ==
  {[leading |-> 0, between |-> 1, trailing |-> 0],
   [leading |-> 1, between |-> 1, trailing |-> 1],
   [leading |-> 2, between |-> 2, trailing |-> 0],
   [leading |-> 0, between |-> 1, trailing |-> 2]}

RECURSIVE Newlines(_)
Newlines(n) == IF n = 0 THEN <<>> ELSE <<"\n">> \o Newlines(n - 1)

RECURSIVE Separated(_, _, _)
Separated(statements, between, i) ==
  IF i > Len(statements) THEN <<>>
  ELSE IF i = Len(statements) THEN statements[i].text
  ELSE statements[i].text \o Newlines(between) \o Separated(statements, between, i + 1)

FileText(statements, layout) ==
  Newlines(layout.leading) \o Separated(statements, layout.between, 1)
    \o Newlines(layout.trailing)

StatementLists ==
  SeqsUpTo(SimpleStatements, MaxStatements) \cup {<<s>> : s \in BlockStatements}

FileSources == {FileText(t[1], t[2]) : t \in StatementLists \X Layouts}

Sources == LiteralSources \cup {IntegerTestSource} \cup ExpressionSources \cup FileSources

\* let mut lexer = Lexer::new(filepath, source) (main.rs:200)
StartTokens(text) ==
  /\ source = text
  /\ lexer = Lexer_new(text)
  /\ tokens = <<>>
  /\ ast = <<>>
  /\ pc = "next_token"
  /\ names = EmptyMap
  /\ heap = EmptyMap
  /\ bound_file = <<>>
  /\ bytecode = <<>>
  /\ frames = <<>>
  /\ cells = <<>>
  /\ output = <<>>
  /\ stderr = <<>>
  /\ status = "running"
  /\ fault = ""

\* the dump_ast command on a file holding text (main.rs:105-114)
StartDumpAst(text) ==
  /\ source = text
  /\ lexer = <<>>
  /\ tokens = <<>>
  /\ ast = <<>>
  /\ pc = "parse"
  /\ names = EmptyMap
  /\ heap = EmptyMap
  /\ bound_file = <<>>
  /\ bytecode = <<>>
  /\ frames = <<>>
  /\ cells = <<>>
  /\ output = <<>>
  /\ stderr = <<>>
  /\ status = "running"
  /\ fault = ""

\* lexer.next_token(): the caller keeps the Result and stops after
\* EndOfFile or an Err
NextToken ==
  /\ pc = "next_token"
  /\ LET r == next_token(lexer)
     IN /\ lexer' = r.lexer
        /\ tokens' = Append(tokens, IF r.ok THEN [ok |-> TRUE, token |-> r.token]
                                    ELSE [ok |-> FALSE, error |-> r.error])
        /\ pc' = IF r.ok /\ r.token.kind # Kind("EndOfFile") THEN "next_token" ELSE "done"
  /\ UNCHANGED <<source, ast, names, heap, bound_file, bytecode, frames, cells, output, stderr,
                 status, fault>>

\* parse_ast_or_error (main.rs:60-67): parse_file on a new Lexer, and
\* report_compile_error (main.rs:69-89) on an Err
ParseAstOrError ==
  /\ pc = "parse"
  /\ \E r \in {parse_file(Lexer_new(source))} :
       IF r.ok
       THEN /\ ast' = r.ast
            /\ pc' = "dump_ast"
            /\ UNCHANGED <<stderr, status>>
       ELSE /\ stderr' = Append(stderr, r.error)
            /\ pc' = "done"
            /\ status' = "exit 1"
            /\ UNCHANGED ast
  /\ UNCHANGED <<source, lexer, tokens, names, heap, bound_file, bytecode, frames, cells, output,
                 fault>>

\* println!("{:#?}", file) (main.rs:113), then main returns
DumpAst ==
  /\ pc = "dump_ast"
  /\ output' = Append(output, ast)
  /\ pc' = "done"
  /\ status' = "exit 0"
  /\ UNCHANGED <<source, lexer, tokens, ast, names, heap, bound_file, bytecode, frames, cells,
                 stderr, fault>>

ParseInit == \E text \in Sources : StartTokens(text) \/ StartDumpAst(text)

ParseNext ==
  \/ NextToken
  \/ ParseAstOrError
  \/ DumpAst

ParseSpec == ParseInit /\ [][ParseNext]_vars

(***************************************************************************)
(* The structure of a syntax tree, for stating the properties: the paths   *)
(* of its nodes, their order in the source, and the block each is in.      *)
(***************************************************************************)
\* the children of a syntax node, in source order; child i of the node at
\* path p is at p \o <<i>>
Children(node) ==
  CASE node.kind \in {"File", "Block"} -> node.expressions
    [] node.kind = "Export" -> <<node.value>>
    [] node.kind = "Let" -> IF node.value # None THEN <<node.value>> ELSE <<>>
    [] node.kind = "Unary" -> <<node.operand>>
    [] node.kind = "Binary" -> <<node.left, node.right>>
    [] node.kind = "Call" -> <<node.operand>> \o node.arguments
    [] node.kind \in {"Name", "Integer"} -> <<>>

RECURSIVE NodeAt(_, _)
NodeAt(tree, path) ==
  IF path = <<>> THEN tree ELSE NodeAt(Children(tree)[Head(path)], Tail(path))

RECURSIVE PathsFrom(_, _)
PathsFrom(node, path) ==
  {path} \cup UNION {PathsFrom(Children(node)[i], path \o <<i>>) :
                       i \in 1..Len(Children(node))}

Paths(tree) == PathsFrom(tree, <<>>)

PathsOfKind(tree, kinds) == {p \in Paths(tree) : NodeAt(tree, p).kind \in kinds}

IsPrefix(p, q) == Len(p) <= Len(q) /\ SubSeq(q, 1, Len(p)) = p

\* p comes before q in the source: it encloses q, or lies to its left
PathBefore(p, q) ==
  /\ p # q
  /\ \/ IsPrefix(p, q)
     \/ \E i \in 1..Len(p) :
          /\ i <= Len(q)
          /\ SubSeq(p, 1, i - 1) = SubSeq(q, 1, i - 1)
          /\ p[i] < q[i]

\* the whole of p lies to the left of q
LeftOf(p, q) == PathBefore(p, q) /\ ~IsPrefix(p, q)

\* the nearest File or Block that encloses the node at path
ScopeOf(tree, path) ==
  LET enclosing == {k \in 0..(Len(path) - 1) :
                      NodeAt(tree, SubSeq(path, 1, k)).kind \in {"File", "Block"}}
      k == CHOOSE m \in enclosing : \A j \in enclosing : j <= m
  IN SubSeq(path, 1, k)

\* bind_ast has returned, and nothing has happened since
JustBound == pc \in {"compile", "report_compile_error"}

BindResult == bound_file[1]

BindLog == BindResult.log

WasCalled(path) ==
  \E i \in 1..Len(BindLog) : BindLog[i].event = "call" /\ BindLog[i].path = path

CallOf(path) ==
  BindLog[CHOOSE i \in 1..Len(BindLog) :
            BindLog[i].event = "call" /\ BindLog[i].path = path]

ReturnOf(path) ==
  BindLog[CHOOSE i \in 1..Len(BindLog) :
            BindLog[i].event = "return" /\ BindLog[i].path = path]

NameLocation(path) == TokenLocation(path, "name_token")

(***************************************************************************)
(* C1  Shadowing across nested scopes is legal: a DuplicateDefinition is   *)
(* only ever reported against a definition of the same block (never one   *)
(* inherited from an enclosing scope), and `let a = 1 { let a = 2  a } a`  *)
(* binds, with the inner a resolved to the inner definition and the last a *)
(* to the outer one.                                                       *)
(***************************************************************************)
ShadowingExample ==
  AstFile(<<AstLet("a", One), AstBlock(<<AstLet("a", One), AstName("a")>>), AstName("a")>>)

C1_ShadowingIsLegal ==
  JustBound =>
    /\ (~BindResult.ok /\ BindResult.error.message[1] = "DuplicateDefinition") =>
         ScopeOf(ast, BindResult.error.location[1])
           = ScopeOf(ast, BindResult.error.notes[1].location[1][1])
    /\ ast = ShadowingExample =>
         /\ BindResult.ok
         /\ heap[<<2, 2>>].resolved_expression = <<2, 1>>
         /\ heap[<<3>>].resolved_expression = <<1>>

(***************************************************************************)
(* Duplicate definitions.  A pair (first, second) is two definitions of    *)
(* one name in one block where the first was bound and inserted before the *)
(* second came to its check: it lies to the left of the second, or inside  *)
(* the second's value.                                                     *)
(***************************************************************************)
DefinitionPaths(tree) == PathsOfKind(tree, {"Let", "Export"})

DuplicatePair(first, second) ==
  /\ first # second
  /\ NodeAt(ast, first).name = NodeAt(ast, second).name
  /\ ScopeOf(ast, first) = ScopeOf(ast, second)
  /\ LeftOf(first, second) \/ IsPrefix(second, first)
  /\ first \in DOMAIN BindResult.heap
  /\ WasCalled(second)

\* the value expression of the definition at path, if it has one, was bound
ValueBound(path) ==
  NodeAt(ast, path).value # None => (path \o <<1>>) \in DOMAIN BindResult.heap

DuplicateReported(first, second) ==
  LET name == NodeAt(ast, second).name IN
  /\ ~BindResult.ok
  /\ BindResult.error.location = NameLocation(second)
  /\ BindResult.error.message = <<"DuplicateDefinition", name>>
  /\ Len(BindResult.error.notes) = 1
  /\ BindResult.error.notes[1].location = <<NameLocation(first)>>
  /\ ReturnOf(second).names[name] = first

\* C2 as the specification states it: every second definition of a name in
\* one scope is reported as DuplicateDefinition at its own location, with
\* one note at the first definition, which the scope keeps.
C2_DuplicateAlwaysReported ==
  JustBound =>
    \A first, second \in DefinitionPaths(ast) :
      DuplicatePair(first, second) => DuplicateReported(first, second)

(***************************************************************************)
(* C2  A second definition of a name in one scope, once its own value      *)
(* expression (if any) has bound, fails with DuplicateDefinition at the    *)
(* second definition's location, with exactly one note at the first        *)
(* definition's location, and the scope's entry for the name still refers  *)
(* to the first definition.                                                *)
(***************************************************************************)
C2_DuplicateReportedAfterValue ==
  JustBound =>
    \A first, second \in DefinitionPaths(ast) :
      (DuplicatePair(first, second) /\ ValueBound(second)) =>
        DuplicateReported(first, second)

\* a duplicate is reported two statements after the first definition
C2_Witness ==
  /\ JustBound
  /\ {<<1>>, <<3>>} \subseteq DefinitionPaths(ast)
  /\ DuplicatePair(<<1>>, <<3>>)
  /\ ValueBound(<<3>>)
  /\ NodeAt(ast, <<3>>).value # None
  /\ DuplicateReported(<<1>>, <<3>>)

(***************************************************************************)
(* C3  Binding a Block or File never modifies the scope it is given: the   *)
(* caller's names are the same after the bind as before it, whether the    *)
(* bind succeeds or fails.  So the names visible to any node were defined  *)
(* in a scope that encloses it (or are the built-in), and a reference      *)
(* whose only definitions lie in blocks that do not enclose it fails with  *)
(* UndefinedName.                                                          *)
(***************************************************************************)
Undefined(path) ==
  /\ ~ReturnOf(path).ok
  /\ ReturnOf(path).error =
       CompileError(NameLocation(path), <<"UndefinedName", NodeAt(ast, path).name>>, <<>>)

C3_SnapshotUnchanged ==
  JustBound =>
    /\ names = MainNames
    /\ \A b \in PathsOfKind(ast, {"File", "Block"}) :
         WasCalled(b) => ReturnOf(b).names = CallOf(b).names
    /\ \A i \in 1..Len(BindLog) :
         BindLog[i].event = "call" =>
           \A n \in DOMAIN BindLog[i].names :
             \/ BindLog[i].names[n] = BuiltinAddress
             \/ IsPrefix(ScopeOf(ast, BindLog[i].names[n]), BindLog[i].path)
    /\ \A q \in PathsOfKind(ast, {"Name"}) :
         ( /\ WasCalled(q)
           /\ NodeAt(ast, q).name # "print_integer"
           /\ \A d \in DefinitionPaths(ast) :
                (NodeAt(ast, d).name = NodeAt(ast, q).name /\ LeftOf(d, q))
                  => ~IsPrefix(ScopeOf(ast, d), q) )
         => Undefined(q)

\* a block defined a name, returned, and a reference after it is undefined
C3_Witness ==
  /\ JustBound
  /\ \E b \in PathsOfKind(ast, {"Block"}), d \in DefinitionPaths(ast),
        q \in PathsOfKind(ast, {"Name"}) :
       /\ ScopeOf(ast, d) = b
       /\ d \in DOMAIN BindResult.heap
       /\ NodeAt(ast, d).name = NodeAt(ast, q).name
       /\ LeftOf(b, q)
       /\ WasCalled(b) /\ ReturnOf(b).ok
       /\ ReturnOf(b).names = CallOf(b).names
       /\ WasCalled(q) /\ Undefined(q)

(***************************************************************************)
(* C4  A Name reference binds exactly when its name was defined by a Let   *)
(* or Export bound earlier in the same scope, or was present in an         *)
(* enclosing scope when the current scope was entered, and it then refers  *)
(* to such a definition; otherwise it fails with UndefinedName.  There are *)
(* no forward references, and a definition's name is not visible in its    *)
(* own value: `let a = a` fails with UndefinedName.                        *)
(***************************************************************************)
VisibleDefiners(q) ==
  {d \in DefinitionPaths(ast) :
     /\ NodeAt(ast, d).name = NodeAt(ast, q).name
     /\ LeftOf(d, q)
     /\ IsPrefix(ScopeOf(ast, d), q)}
  \cup (IF NodeAt(ast, q).name \in DOMAIN MainNames
        THEN {MainNames[NodeAt(ast, q).name]} ELSE {})

SelfReference == AstFile(<<AstLet("a", AstName("a"))>>)

C4_NameResolution ==
  JustBound =>
    /\ \A q \in PathsOfKind(ast, {"Name"}) :
         WasCalled(q) =>
           /\ ReturnOf(q).ok <=> VisibleDefiners(q) # {}
           /\ ReturnOf(q).ok =>
                BindResult.heap[q].resolved_expression \in VisibleDefiners(q)
           /\ ~ReturnOf(q).ok => Undefined(q)
    /\ ast = SelfReference => (~BindResult.ok /\ Undefined(<<1, 1>>))

\* a reference to a name defined later in the same scope is undefined, and
\* so is the reference of `let a = a`
C4_Witness ==
  /\ JustBound
  /\ \/ ast = SelfReference /\ BindResult.error.message = <<"UndefinedName", "a">>
     \/ \E q \in PathsOfKind(ast, {"Name"}), d \in DefinitionPaths(ast) :
          /\ WasCalled(q) /\ Undefined(q)
          /\ NodeAt(ast, d).name = NodeAt(ast, q).name
          /\ ScopeOf(ast, d) = ScopeOf(ast, q)
          /\ LeftOf(q, d)

\* a reference after its definition in the same scope binds to it
C4_WitnessResolved ==
  /\ JustBound
  /\ \E q \in PathsOfKind(ast, {"Name"}) :
       /\ WasCalled(q) /\ ReturnOf(q).ok
       /\ BindResult.heap[q].resolved_expression # BuiltinAddress

(***************************************************************************)
(* C5  An integer literal L with 0 <= L <= 2^63 - 1 binds as an Integer    *)
(* node of type Integer that holds L, and the lowered file pushes exactly  *)
(* the literals of the source, unchanged and in source order; a literal    *)
(* above 2^63 - 1 fails with IntegerTooLarge, and no node is produced.     *)
(***************************************************************************)
\* 0 <= k * 2^63 + d <= 2^63 - 1, for the literals of the model
LiteralInRange(value) ==
  (value[1] = 0 /\ value[2] >= 0) \/ (value[1] = 1 /\ value[2] < 0)

RECURSIVE LiteralsOf(_)
RECURSIVE LiteralsOfAll(_, _)
\* the integer literals of a syntax tree, in source order
LiteralsOf(node) ==
  IF node.kind = "Integer" THEN <<node.value>> ELSE LiteralsOfAll(Children(node), 1)

LiteralsOfAll(nodes, i) ==
  IF i > Len(nodes) THEN <<>> ELSE LiteralsOf(nodes[i]) \o LiteralsOfAll(nodes, i + 1)

IsPushInteger(instruction) ==
  instruction.op = "Push" /\ instruction.value.kind = "Integer"

\* the integers the instructions of code push, in order
PushedIntegers(code) ==
  LET pushes == SelectSeq(code, IsPushInteger)
  IN [i \in 1..Len(pushes) |-> pushes[i].value.value]

JustCompiled == pc = "execute"

C5_IntegerLiterals ==
  /\ JustBound =>
       \A q \in PathsOfKind(ast, {"Integer"}) :
         WasCalled(q) =>
           LET L == NodeAt(ast, q).value IN
           IF LiteralInRange(L)
           THEN /\ ReturnOf(q).ok
                /\ BindResult.heap[q].kind = "Integer"
                /\ BindResult.heap[q].value = L
                /\ get_type(BindResult.heap, q) = TypeInteger
           ELSE /\ ~ReturnOf(q).ok
                /\ ReturnOf(q).error =
                     CompileError(TokenLocation(q, "integer_token"),
                                  <<"IntegerTooLarge", L>>, <<>>)
                /\ q \notin DOMAIN BindResult.heap
                /\ ~BindResult.ok
  /\ JustCompiled => PushedIntegers(bytecode) = LiteralsOf(ast)

\* the literal 2^63 - 1 was bound and lowered
C5_Witness ==
  /\ JustCompiled
  /\ \E i \in 1..Len(bytecode) :
       IsPushInteger(bytecode[i]) /\ bytecode[i].value.value = I64_MAX
  /\ PushedIntegers(bytecode) = LiteralsOf(ast)

\* the literal 2^63 was rejected
C5_WitnessTooLarge ==
  /\ JustBound
  /\ ~BindResult.ok
  /\ BindResult.error.message = <<"IntegerTooLarge", Num(1, 0)>>

(***************************************************************************)
(* C6  The type of a bound Block or File is a Block-type with exactly one  *)
(* entry for each direct child that is an Export, mapping its name to its  *)
(* type; Lets and definitions nested inside other children are left out.   *)
(* `{ let a = 1  export b = 1 }` has type { b: Integer }.                  *)
(***************************************************************************)
ExportChildren(b) ==
  {i \in 1..Len(NodeAt(ast, b).expressions) :
     NodeAt(ast, b).expressions[i].kind = "Export"}

LetAndExport == <<AstLet("a", One), AstExport("b", One)>>

C6_BlockType ==
  JustBound =>
    \A b \in PathsOfKind(ast, {"File", "Block"}) :
      (WasCalled(b) /\ ReturnOf(b).ok) =>
        LET type == BindResult.heap[b].block_type
            exprs == NodeAt(ast, b).expressions
        IN /\ type.kind = "Block"
           /\ DOMAIN type.exported_types = {exprs[i].name : i \in ExportChildren(b)}
           /\ Cardinality(DOMAIN type.exported_types) = Cardinality(ExportChildren(b))
           /\ \A i \in ExportChildren(b) :
                type.exported_types[exprs[i].name] = get_type(BindResult.heap, b \o <<i>>)
           /\ type = get_type(BindResult.heap, b)
           /\ exprs = LetAndExport => type = TypeBlock([n \in {"b"} |-> TypeInteger])

\* a block with a Let and an Export was bound
C6_Witness ==
  /\ JustBound
  /\ \E b \in PathsOfKind(ast, {"Block"}) :
       /\ WasCalled(b) /\ ReturnOf(b).ok
       /\ NodeAt(ast, b).expressions = LetAndExport
       /\ BindResult.heap[b].block_type = TypeBlock([n \in {"b"} |-> TypeInteger])

(***************************************************************************)
(* C7  A Unary or Binary node binds, with result type Integer and the      *)
(* operator of its token, exactly when the token is unary + or -, or       *)
(* binary + - * /, and every operand has type Integer; in every other case *)
(* it fails with OperatorNotFound at the operator, with no notes.  When an *)
(* operand fails to bind, the operand's error is returned instead, and a   *)
(* right operand is not bound after a failed left one.                     *)
(***************************************************************************)
UnaryKindOf(token) ==
  CASE token = "Plus" -> "Identity" [] token = "Minus" -> "Negation"

BinaryKindOf(token) ==
  CASE token = "Plus" -> "Addition" [] token = "Minus" -> "Subtraction"
    [] token = "Asterisk" -> "Multiplication" [] token = "Slash" -> "Division"

OperatorLocation(path) == TokenLocation(path, "operator_token")

UnaryAsSpecified(u) ==
  LET node == NodeAt(ast, u)
      o == u \o <<1>>
      result == ReturnOf(u)
  IN IF ~ReturnOf(o).ok THEN ~result.ok /\ result.error = ReturnOf(o).error
     ELSE LET type == get_type(BindResult.heap, o) IN
          IF node.operator_token \in {"Plus", "Minus"} /\ type = TypeInteger
          THEN /\ result.ok
               /\ get_type(BindResult.heap, u) = TypeInteger
               /\ BindResult.heap[u].operator.kind = UnaryKindOf(node.operator_token)
               /\ BindResult.heap[u].operand = o
          ELSE /\ ~result.ok
               /\ result.error =
                    CompileError(OperatorLocation(u),
                      <<"OperatorNotFound", TokenToString(node.operator_token), type>>,
                      <<>>)

BinaryAsSpecified(u) ==
  LET node == NodeAt(ast, u)
      l == u \o <<1>>
      r == u \o <<2>>
      result == ReturnOf(u)
  IN IF ~ReturnOf(l).ok
     THEN ~result.ok /\ result.error = ReturnOf(l).error /\ ~WasCalled(r)
     ELSE IF ~ReturnOf(r).ok THEN ~result.ok /\ result.error = ReturnOf(r).error
     ELSE LET left_type == get_type(BindResult.heap, l)
              right_type == get_type(BindResult.heap, r) IN
          IF /\ node.operator_token \in {"Plus", "Minus", "Asterisk", "Slash"}
             /\ left_type = TypeInteger /\ right_type = TypeInteger
          THEN /\ result.ok
               /\ get_type(BindResult.heap, u) = TypeInteger
               /\ BindResult.heap[u].operator.kind = BinaryKindOf(node.operator_token)
               /\ BindResult.heap[u].left = l /\ BindResult.heap[u].right = r
          ELSE /\ ~result.ok
               /\ result.error =
                    CompileError(OperatorLocation(u),
                      <<"OperatorNotFound", TokenToString(node.operator_token),
                        left_type, right_type>>,
                      <<>>)

C7_OperatorSelection ==
  JustBound =>
    /\ \A u \in PathsOfKind(ast, {"Unary"}) : WasCalled(u) => UnaryAsSpecified(u)
    /\ \A u \in PathsOfKind(ast, {"Binary"}) : WasCalled(u) => BinaryAsSpecified(u)

\* an arithmetic operator was refused for an operand that is not an Integer
C7_Witness ==
  /\ JustBound
  /\ \E u \in PathsOfKind(ast, {"Binary"}) :
       /\ NodeAt(ast, u).operator_token \in {"Plus", "Minus", "Asterisk", "Slash"}
       /\ WasCalled(u) /\ WasCalled(u \o <<2>>) /\ ReturnOf(u \o <<2>>).ok
       /\ get_type(BindResult.heap, u \o <<1>>) = TypeInteger
       /\ get_type(BindResult.heap, u \o <<2>>) # TypeInteger
       /\ ~ReturnOf(u).ok
       /\ ReturnOf(u).error.message[1] = "OperatorNotFound"

(***************************************************************************)
(* C8  Binding a Call applies its checks in a fixed order.  The callee is  *)
(* bound first; if its type is not a Procedure-type the result is          *)
(* NotCallable, with one note at the callee that shows the type.           *)
(* Otherwise, if the argument count differs from the parameter count, the  *)
(* result is ArityMismatch(expected, actual).  In both cases no argument   *)
(* is bound.  Otherwise the arguments are bound and type-checked left to   *)
(* right, and the first one that fails, or whose type differs from its     *)
(* parameter's, ends the bind (with its own error, or with                 *)
(* ArgumentTypeMismatch) before any later argument is bound.  For          *)
(* print_integer, 0 or 2 arguments give ArityMismatch(1, 0) and            *)
(* ArityMismatch(1, 2).                                                    *)
(***************************************************************************)
CallLocation(path) == TokenLocation(path, "close_parenthesis_token")

ArgumentPath(c, i) == c \o <<1 + i>>

NoArgumentBound(c) ==
  \A i \in 1..Len(NodeAt(ast, c).arguments) : ~WasCalled(ArgumentPath(c, i))

\* argument i of the call at c was bound and has its parameter's type
GoodArgument(c, type, i) ==
  /\ WasCalled(ArgumentPath(c, i))
  /\ ReturnOf(ArgumentPath(c, i)).ok
  /\ get_type(BindResult.heap, ArgumentPath(c, i)) = type.parameter_types[i]

ArgumentsAsSpecified(c, type) ==
  LET n == Len(NodeAt(ast, c).arguments)
      result == ReturnOf(c)
      bad == {i \in 1..n : ~GoodArgument(c, type, i)}
  IN /\ \A i \in 1..n :
          WasCalled(ArgumentPath(c, i)) <=> \A j \in 1..(i - 1) : GoodArgument(c, type, j)
     /\ IF bad = {}
        THEN /\ result.ok
             /\ BindResult.heap[c].operand = c \o <<1>>
             /\ BindResult.heap[c].arguments = [i \in 1..n |-> ArgumentPath(c, i)]
        ELSE LET first == CHOOSE i \in bad : \A j \in bad : i <= j
                 argument == ReturnOf(ArgumentPath(c, first))
             IN /\ ~result.ok
                /\ IF ~argument.ok THEN result.error = argument.error
                   ELSE result.error =
                          CompileError(CallLocation(c),
                            <<"ArgumentTypeMismatch", type.parameter_types[first],
                              get_type(BindResult.heap, ArgumentPath(c, first))>>,
                            <<>>)

CallAsSpecified(c) ==
  LET node == NodeAt(ast, c)
      o == c \o <<1>>
      result == ReturnOf(c)
  IN IF ~ReturnOf(o).ok
     THEN ~result.ok /\ result.error = ReturnOf(o).error /\ NoArgumentBound(c)
     ELSE LET type == get_type(BindResult.heap, o) IN
          IF type.kind # "Proc"
          THEN /\ ~result.ok
               /\ result.error =
                    CompileError(CallLocation(c), <<"NotCallable">>,
                      <<CompileNote(<<BindResult.heap[o].location>>,
                                    <<"The type was", type>>)>>)
               /\ NoArgumentBound(c)
          ELSE IF Len(type.parameter_types) # Len(node.arguments)
          THEN /\ ~result.ok
               /\ result.error =
                    CompileError(CallLocation(c),
                      <<"ArityMismatch", Len(type.parameter_types), Len(node.arguments)>>,
                      <<>>)
               /\ NoArgumentBound(c)
          ELSE ArgumentsAsSpecified(c, type)

C8_CallCheckOrder ==
  JustBound =>
    \A c \in PathsOfKind(ast, {"Call"}) :
      WasCalled(c) =>
        /\ CallAsSpecified(c)
        /\ (NodeAt(ast, c).operand = AstName("print_integer")
              /\ Len(NodeAt(ast, c).arguments) # 1) =>
             ReturnOf(c).error.message =
               <<"ArityMismatch", 1, Len(NodeAt(ast, c).arguments)>>

\* print_integer was called with an argument that is not an Integer
C8_Witness ==
  /\ JustBound
  /\ \E c \in PathsOfKind(ast, {"Call"}) :
       /\ NodeAt(ast, c).operand = AstName("print_integer")
       /\ WasCalled(ArgumentPath(c, 1)) /\ ReturnOf(ArgumentPath(c, 1)).ok
       /\ ~ReturnOf(c).ok
       /\ ReturnOf(c).error.message[1] = "ArgumentTypeMismatch"

\* print_integer was called with two arguments, and neither was bound
C8_WitnessArity ==
  /\ JustBound
  /\ \E c \in PathsOfKind(ast, {"Call"}) :
       /\ WasCalled(c) /\ ~ReturnOf(c).ok
       /\ ReturnOf(c).error.message = <<"ArityMismatch", 1, 2>>
       /\ NoArgumentBound(c)

(***************************************************************************)
(* C9  Binding is fail-fast.  Nodes are bound in traversal order (block    *)
(* children in source order, left operand before right, callee before      *)
(* arguments).  When the bind of a node fails, the bind of the whole tree  *)
(* returns exactly the error of the first failing node: every node left of *)
(* it was bound, nothing is bound after it, each enclosing node returns    *)
(* the same error, no bound tree is returned and nothing is lowered or     *)
(* executed.                                                               *)
(***************************************************************************)
Failures == {i \in 1..Len(BindLog) : BindLog[i].event = "return" /\ ~BindLog[i].ok}

FirstFailure == CHOOSE i \in Failures : \A j \in Failures : i <= j

Calls == {i \in 1..Len(BindLog) : BindLog[i].event = "call"}

C9_FailFast ==
  /\ JustBound =>
       /\ \A i, j \in Calls : i < j => PathBefore(BindLog[i].path, BindLog[j].path)
       /\ BindResult.ok <=> Failures = {}
       /\ ~BindResult.ok =>
            LET failed == BindLog[FirstFailure].path IN
            /\ BindResult.error = BindLog[FirstFailure].error
            /\ "node" \notin DOMAIN BindResult
            /\ \A i \in (FirstFailure + 1)..Len(BindLog) :
                 /\ BindLog[i].event = "return"
                 /\ ~BindLog[i].ok
                 /\ BindLog[i].error = BindLog[FirstFailure].error
                 /\ IsPrefix(BindLog[i].path, failed)
            /\ \A p \in Paths(ast) :
                 /\ (LeftOf(p, failed) \/ IsPrefix(p, failed)) => WasCalled(p)
                 /\ LeftOf(p, failed) => ReturnOf(p).ok
                 /\ LeftOf(failed, p) => ~WasCalled(p)
  /\ (bound_file # <<>> /\ ~BindResult.ok) =>
       /\ pc \in {"report_compile_error", "done"}
       /\ bytecode = <<>> /\ frames = <<>> /\ output = <<>>
       /\ pc = "done" => (status = "exit 1" /\ stderr = <<BindResult.error>>)

\* a node failed after a sibling was bound and before another one, which
\* was not
C9_Witness ==
  /\ JustBound
  /\ ~BindResult.ok
  /\ \E p, q \in Paths(ast) :
       /\ LeftOf(p, BindLog[FirstFailure].path) /\ ReturnOf(p).ok
       /\ LeftOf(BindLog[FirstFailure].path, q) /\ ~WasCalled(q)
       /\ BindResult.error = BindLog[FirstFailure].error

(***************************************************************************)
(* C10  End to end: for a file whose only expression is print_integer(e),  *)
(* e an arithmetic expression over integer literals built from binary      *)
(* + - * / with non-zero divisors and results in range, the run writes     *)
(* exactly one output line, the value of e (7 for 1 + 2 * 3), and then     *)
(* reaches Exit with no runtime fault, ending with status 0.               *)
(***************************************************************************)
\* the quotient of n by m # 0, rounded toward zero
Quotient(n, m) ==
  CHOOSE q \in -Abs(n)..Abs(n) :
    /\ Abs(q) * Abs(m) <= Abs(n) /\ Abs(n) < (Abs(q) + 1) * Abs(m)
    /\ q # 0 => ((q > 0) <=> ((n > 0) = (m > 0)))

Known(value) == [defined |-> TRUE, value |-> value]

Unknown == [defined |-> FALSE, value |-> Small(0)]

Within(exact, fits) == IF fits THEN Known(exact) ELSE Unknown

RECURSIVE Eval(_)
\* the value of an arithmetic expression; Unknown when it has a zero
\* divisor, a result out of the i64 range, or an operand that is not
\* arithmetic
Eval(e) ==
  IF e.kind = "Integer" THEN Within(e.value, LiteralInRange(e.value))
  ELSE IF e.kind # "Binary" \/ e.operator_token \notin ArithmeticTokens THEN Unknown
  ELSE LET l == Eval(e.left)
           r == Eval(e.right)
       IN IF ~l.defined \/ ~r.defined THEN Unknown
          ELSE CASE e.operator_token = "Plus" ->
                      Within(NumAdd(l.value, r.value), InI64(NumAdd(l.value, r.value)))
                 [] e.operator_token = "Minus" ->
                      Within(NumSub(l.value, r.value), InI64(NumSub(l.value, r.value)))
                 [] e.operator_token = "Asterisk" ->
                      Within(NumMulLow(l.value, r.value), NumMulFits(l.value, r.value))
                 [] e.operator_token = "Slash" ->
                      IF l.value[1] # 0 \/ r.value[1] # 0 \/ r.value[2] = 0 THEN Unknown
                      ELSE Known(Small(Quotient(l.value[2], r.value[2])))

\* the file is print_integer(e) and e has a value
PrintsArithmetic ==
  /\ Len(ast.expressions) = 1
  /\ ast.expressions[1].kind = "Call"
  /\ ast.expressions[1].operand = AstName("print_integer")
  /\ Len(ast.expressions[1].arguments) = 1
  /\ Eval(ast.expressions[1].arguments[1]).defined

Printed == Eval(ast.expressions[1].arguments[1]).value

\* some arm of the executor's match can run
ExecutorStep ==
  \/ ExecExit \/ ExecPush \/ ExecPop \/ ExecDup \/ ExecCall \/ ExecReturn
  \/ ExecLoad \/ ExecStore \/ ExecAddInteger \/ ExecSubInteger \/ ExecMulInteger
  \/ ExecDivInteger \/ ExecPrintInteger

OnePlusTwoTimesThree ==
  AstBinary(AstInteger(Small(1)), "Plus",
            AstBinary(AstInteger(Small(2)), "Asterisk", AstInteger(Small(3))))

C10_EndToEnd ==
  PrintsArithmetic =>
    /\ fault = "" /\ status \notin {"panic", "exit 1"}
    /\ output \in {<<>>, <<Printed>>}
    /\ pc \in {"bind", "compile", "execute", "running", "done"}
    /\ pc = "running" =>
         (frames # <<>> /\ Top.ip < Len(Top.bytecode) /\ ENABLED ExecutorStep)
    /\ pc = "done" => (status = "exit 0" /\ output = <<Printed>>)
    /\ (pc = "done" /\ ast = AstFile(<<PrintInteger(OnePlusTwoTimesThree)>>)) =>
         output = <<Small(7)>>

\* print_integer(1 + 2 * 3) has printed 7 and exited
C10_Witness ==
  /\ ast = AstFile(<<PrintInteger(OnePlusTwoTimesThree)>>)
  /\ PrintsArithmetic
  /\ pc = "done"
  /\ status = "exit 0"
  /\ output = <<Small(7)>>

\* a quotient that rounds, and a difference below zero, were printed
C10_WitnessRounded ==
  /\ PrintsArithmetic
  /\ pc = "done"
  /\ ast.expressions[1].arguments[1].kind = "Binary"
  /\ ast.expressions[1].arguments[1].operator_token = "Slash"
  /\ output = <<Small(1)>>
  /\ ast.expressions[1].arguments[1].left = AstInteger(Small(3))
  /\ ast.expressions[1].arguments[1].right = AstInteger(Small(2))

(***************************************************************************)
(* C11  Unary minus evaluates to the negation of its operand and unary     *)
(* plus to the operand itself: every instruction that lowering emits is a  *)
(* member of the instruction set, the executor can execute each of them,   *)
(* and print_integer(-v) prints -v while print_integer(+v) prints v.       *)
(***************************************************************************)
PrintsUnary ==
  /\ Len(ast.expressions) = 1
  /\ ast.expressions[1].kind = "Call"
  /\ ast.expressions[1].operand = AstName("print_integer")
  /\ Len(ast.expressions[1].arguments) = 1
  /\ ast.expressions[1].arguments[1].kind = "Unary"
  /\ ast.expressions[1].arguments[1].operand.kind = "Integer"
  /\ LiteralInRange(ast.expressions[1].arguments[1].operand.value)

UnaryValue ==
  IF ast.expressions[1].arguments[1].operator_token = "Minus"
  THEN NumNeg(ast.expressions[1].arguments[1].operand.value)
  ELSE ast.expressions[1].arguments[1].operand.value

C11_UnaryEvaluates ==
  /\ bytecode # <<>> => \A i \in 1..Len(bytecode) : bytecode[i].op \in Bytecode
  /\ (PrintsUnary /\ ast.expressions[1].arguments[1].operator_token \in {"Plus", "Minus"}) =>
       /\ status # "panic"
       /\ pc = "running" => ENABLED ExecutorStep
       /\ pc = "done" => (status = "exit 0" /\ output = <<UnaryValue>>)

(***************************************************************************)
(* C12  A source n / 0 binds and lowers, and executing DivInteger with a   *)
(* right operand of 0 ends the run in a fatal fault: no result cell is     *)
(* pushed, no later instruction executes (nothing is printed, Exit is not  *)
(* reached), and the run does not end in the successful-exit state.        *)
(***************************************************************************)
PrintsDivisionByZero ==
  /\ Len(ast.expressions) = 1
  /\ ast.expressions[1].kind = "Call"
  /\ ast.expressions[1].operand = AstName("print_integer")
  /\ Len(ast.expressions[1].arguments) = 1
  /\ ast.expressions[1].arguments[1].kind = "Binary"
  /\ ast.expressions[1].arguments[1].operator_token = "Slash"
  /\ ast.expressions[1].arguments[1].left.kind = "Integer"
  /\ ast.expressions[1].arguments[1].right = AstInteger(Small(0))

\* the innermost invocation is at a DivInteger whose right operand is 0
DividesByZero ==
  /\ At("DivInteger")
  /\ Len(Top.stack) >= 2
  /\ cells[Top.stack[Len(Top.stack) - 1]].kind = "Integer"
  /\ cells[Last(Top.stack)] = ValueInteger(Small(0))

C12_DivisionByZeroFaults ==
  /\ [](PrintsDivisionByZero =>
          /\ pc # "report_compile_error"
          /\ status \notin {"exit 0", "exit 1"}
          /\ output = <<>>
          /\ pc = "done" => (status = "panic" /\ fault = "attempt to divide by zero"))
  /\ [][DividesByZero =>
          /\ pc' = "done" /\ status' = "panic"
          /\ fault' = "attempt to divide by zero"
          /\ UNCHANGED <<frames, cells, output>>]_vars

\* print_integer(n / 0) was lowered and has faulted at its DivInteger
C12_Witness ==
  /\ PrintsDivisionByZero
  /\ bytecode # <<>>
  /\ pc = "done" /\ status = "panic"
  /\ frames # <<>> /\ Instruction.op = "DivInteger"
  /\ cells[Last(Top.stack)] = ValueInteger(Small(0))

(***************************************************************************)
(* C13  Executing the lowered instructions of a Let or Export, with or     *)
(* without a value, leaves the operand stack exactly one cell deeper than  *)
(* before the statement, and that top cell is the cell the store bound to  *)
(* the name.  Stated for every store of a definition (all stores but the   *)
(* one of main's prologue), and for the depth around the first statement   *)
(* of a file, which starts on the one Void cell of the invocation.         *)
(***************************************************************************)
\* the store of main's prologue (main.rs:168)
PrologueStore == Len(frames) = 1 /\ Top.ip = 1

PrologueLen == 2

FirstIsDefinition ==
  /\ ast.expressions # <<>>
  /\ ast.expressions[1].kind \in {"Let", "Export"}

C13_DefinitionLeavesItsCell ==
  /\ [][(At("Store") /\ ~PrologueStore /\ Top.stack # <<>>) =>
          /\ frames' # <<>>
          /\ frames'[Len(frames')].stack # <<>>
          /\ Last(frames'[Len(frames')].stack) = frames'[Len(frames')].vars[Instruction.name]]_vars
  /\ []((FirstIsDefinition /\ pc = "running" /\ Len(frames) = 1) =>
          /\ Top.ip = PrologueLen => Len(Top.stack) = 1
          /\ Top.ip = PrologueLen + Len(compile(heap, <<1>>, <<>>)) => Len(Top.stack) = 2)

(***************************************************************************)
(* C14  For Call(n) with n >= 2 the callee's initial operand stack holds   *)
(* the n arguments in the order the caller pushed them: the first-pushed   *)
(* argument deepest (above the invocation's Void cell), the last-pushed on *)
(* top.                                                                    *)
(***************************************************************************)
\* the innermost invocation is at a Call that finds its operands
Calling ==
  /\ At("Call")
  /\ Len(Top.stack) >= Instruction.argument_count + 1
  /\ cells[Top.stack[Len(Top.stack) - Instruction.argument_count]].kind = "Procedure"

\* the argument cells of the Call, in the order they were pushed
PushedArguments ==
  SubSeq(Top.stack, Len(Top.stack) - Instruction.argument_count + 1, Len(Top.stack))

C14_ArgumentsKeepOrder ==
  [][(Calling /\ Instruction.argument_count >= 2) =>
       /\ Len(frames') = Len(frames) + 1
       /\ SubSeq(frames'[Len(frames')].stack, 2, Instruction.argument_count + 1)
            = PushedArguments]_vars

(***************************************************************************)
(* C15  Every Call runs the callee's instructions in a brand-new, empty    *)
(* environment, from its first instruction.  A Load in the callee of a     *)
(* name only the caller stored faults.  No step of an invocation changes   *)
(* the environment of an invocation below it, so the callee's stores are   *)
(* gone once it has returned.  The Call takes the callee cell and the n    *)
(* argument cells off the caller's stack, and the Return puts exactly the  *)
(* one returned cell on it.                                                *)
(***************************************************************************)
Returning == At("Return") /\ Top.stack # <<>> /\ Len(frames) >= 2

C15_FreshEnvironment ==
  /\ [][Calling =>
          /\ Len(frames') = Len(frames) + 1
          /\ frames'[Len(frames')].vars = EmptyMap
          /\ frames'[Len(frames')].ip = 0
          /\ frames'[Len(frames')].bytecode
               = cells[Top.stack[Len(Top.stack) - Instruction.argument_count]].code
          /\ frames'[Len(frames)] =
               [Top EXCEPT !.stack = SubSeq(Top.stack, 1,
                                       Len(Top.stack) - Instruction.argument_count - 1)]]_vars
  /\ [][\A i \in 1..(Len(frames) - 1) :
          i <= Len(frames') => frames'[i].vars = frames[i].vars]_vars
  /\ [][Returning =>
          /\ Len(frames') = Len(frames) - 1
          /\ frames'[Len(frames')] =
               [frames[Len(frames) - 1] EXCEPT
                  !.stack = Append(@, Last(Top.stack)), !.ip = @ + 1]]_vars
  /\ []((pc = "running" /\ Len(frames) >= 2 /\ Top.ip = 0) => Top.vars = EmptyMap)

\* the callee's Load of x faulted although the caller had stored x
C15_Witness ==
  /\ pc = "done" /\ status = "panic"
  /\ Len(frames) = 2
  /\ "x" \in DOMAIN frames[1].vars
  /\ Instruction = Load("x")
  /\ "x" \notin DOMAIN Top.vars

\* the callee stored x and returned, and the caller still has its own x
C15_WitnessStore ==
  /\ pc = "running" /\ Len(frames) = 1
  /\ "x" \in DOMAIN Top.vars
  /\ cells[Top.vars["x"]] = ValueInteger(Small(1))
  /\ \E i \in 1..Top.ip : Top.bytecode[i].op = "Call"
  /\ \E i \in 1..Top.ip :
       /\ Top.bytecode[i].op = "Push"
       /\ Top.bytecode[i].value = ValueProcedure(<<Store("x"), Load("x"), Op("Return")>>)
  /\ \E i \in 1..Top.ip : Top.bytecode[i] = PushInteger(2)

(***************************************************************************)
(* C16  Return pops exactly one cell and ends the current invocation,      *)
(* yielding that cell to the caller.  An invocation whose instruction      *)
(* pointer reaches the end of its instructions ends the run in a fatal     *)
(* fault: nothing is returned and nothing more executes.                   *)
(***************************************************************************)
PastTheEnd == pc = "running" /\ Top.ip >= Len(Top.bytecode)

C16_ReturnOrFault ==
  /\ [][Returning =>
          /\ frames' = [Front(frames) EXCEPT ![Len(frames) - 1] =
                          [@ EXCEPT !.stack = Append(@, Last(Top.stack)), !.ip = @ + 1]]
          /\ UNCHANGED <<cells, output, pc, status>>]_vars
  /\ [][(At("Return") /\ Top.stack # <<>> /\ Len(frames) = 1) =>
          (pc' = "done" /\ frames' = <<>> /\ status' # "panic"
           /\ UNCHANGED <<cells, output>>)]_vars
  /\ [][PastTheEnd =>
          /\ pc' = "done" /\ status' = "panic" /\ fault' = "index out of bounds"
          /\ UNCHANGED <<frames, cells, output>>]_vars
  /\ []((pc = "done" /\ frames # <<>> /\ Top.ip >= Len(Top.bytecode)) => status = "panic")

\* a callee ran off the end of its instructions, and the run has faulted
C16_Witness ==
  /\ pc = "done" /\ status = "panic" /\ fault = "index out of bounds"
  /\ Len(frames) = 2
  /\ Top.ip = Len(Top.bytecode)

(***************************************************************************)
(* C17  Exit ends the whole run at once and successfully at any call       *)
(* depth: after the Exit step the run is in the successful-exit state, not *)
(* in a fault, and nothing has executed since.                             *)
(***************************************************************************)
C17_ExitAtAnyDepth ==
  [][At("Exit") =>
       /\ pc' = "done" /\ status' = "exit 0" /\ fault' = ""
       /\ UNCHANGED <<cells, output>>]_vars

(***************************************************************************)
(* C18  Each executed PrintInteger pops exactly one cell, pushes nothing   *)
(* and appends exactly one integer, the popped cell's, to the output.  For *)
(* a file of several print_integer calls the output is the sequence of the *)
(* calls' argument values in program order: at every moment a prefix of    *)
(* it, and the whole of it when the run has ended.                         *)
(***************************************************************************)
Printing ==
  /\ At("PrintInteger")
  /\ Top.stack # <<>>
  /\ cells[Last(Top.stack)].kind = "Integer"

PrintsLiterals ==
  \A i \in 1..Len(ast.expressions) :
    /\ ast.expressions[i].kind = "Call"
    /\ ast.expressions[i].operand = AstName("print_integer")
    /\ Len(ast.expressions[i].arguments) = 1
    /\ ast.expressions[i].arguments[1] \in SmallIntegers

\* the argument values of the calls of such a file, in program order
PrintedValues == [i \in 1..Len(ast.expressions) |-> ast.expressions[i].arguments[1].value]

C18_OutputInProgramOrder ==
  /\ [][Printing =>
          /\ frames' = [frames EXCEPT ![Len(frames)] =
                          [@ EXCEPT !.stack = Front(@), !.ip = @ + 1]]
          /\ output' = Append(output, cells[Last(Top.stack)].value)
          /\ cells' = cells]_vars
  /\ []((PrintsLiterals /\ bound_file # <<>>) =>
          /\ Len(output) <= Len(PrintedValues)
          /\ output = SubSeq(PrintedValues, 1, Len(output))
          /\ pc = "done" => (status = "exit 0" /\ output = PrintedValues))

\* three different values were printed, in the order of their calls
C18_Witness ==
  /\ PrintsLiterals /\ bound_file # <<>>
  /\ pc = "done"
  /\ Len(output) = 3
  /\ output = PrintedValues
  /\ output[1] # output[2] /\ output[2] # output[3] /\ output[1] # output[3]

(***************************************************************************)
(* C19  A cell's payload is the value it was created with: every step      *)
(* leaves every existing cell as it is.  Dup pushes the very cell on top   *)
(* of the stack, Load pushes the very cell last stored under the name, and *)
(* Push and the arithmetic instructions push a fresh cell, distinct from   *)
(* every existing one.                                                     *)
(***************************************************************************)
NewTop == Last(frames'[Len(frames')].stack)

ArithmeticOps == {"AddInteger", "SubInteger", "MulInteger", "DivInteger"}

C19_CellsAreNeverMutated ==
  /\ [][/\ Len(cells') >= Len(cells)
        /\ \A c \in 1..Len(cells) : cells'[c] = cells[c]]_vars
  /\ [][(At("Dup") /\ Top.stack # <<>>) =>
          (cells' = cells /\ Len(frames') = Len(frames) /\ NewTop = Last(Top.stack)
           /\ frames'[Len(frames')].stack = Append(Top.stack, Last(Top.stack)))]_vars
  /\ [][(At("Load") /\ Instruction.name \in DOMAIN Top.vars) =>
          (cells' = cells /\ Len(frames') = Len(frames) /\ NewTop = Top.vars[Instruction.name])]_vars
  /\ [][(At("Store") /\ Top.stack # <<>>) =>
          (cells' = cells /\ frames'[Len(frames')].vars[Instruction.name] = Last(Top.stack))]_vars
  /\ [][(At("Push") \/ (pc' = "running" /\ \E op \in ArithmeticOps : At(op))) =>
          /\ Len(cells') = Len(cells) + 1
          /\ NewTop = Len(cells')
          /\ NewTop \notin 1..Len(cells)
          /\ At("Push") => cells'[NewTop] = Instruction.value]_vars

\* after a Dup the two cells on top are one cell, and it was then added to
\* itself
C19_Witness ==
  /\ pc = "running"
  /\ Len(frames) = 2
  /\ Top.ip = 2
  /\ Top.bytecode = <<Op("Dup"), Op("AddInteger"), Op("Return")>>
  /\ cells[Last(Top.stack)].kind = "Integer"
  /\ cells[Last(Top.stack)].value # Small(0)
  /\ \E c \in 1..(Len(cells) - 1) :
       cells[c].kind = "Integer" /\ cells[Last(Top.stack)].value = NumAdd(cells[c].value, cells[c].value)

(***************************************************************************)
(* C20  Whenever the binder upgrades a Weak reference (get_type of a Name  *)
(* node, the note of a duplicate definition, the export-type loop of a     *)
(* block), the referent is the builtin the caller holds or a node whose    *)
(* bind has returned Ok before, and nothing has been dropped by then: no   *)
(* bind has failed yet.  When bind_ast succeeds, every referent that was   *)
(* upgraded, and every referent of a Weak the tree holds, is the builtin   *)
(* or a node the returned tree owns through its Rc fields.  A Name only    *)
(* resolves to the builtin or to a node built before the Name was bound.   *)
(***************************************************************************)
Derefs == {t \in 1..Len(BindLog) : BindLog[t].event = "upgrade"}

\* the bind of the node at address rc has returned Ok before position t
BuiltBefore(rc, t) ==
  \E s \in 1..(t - 1) :
    BindLog[s].event = "return" /\ BindLog[s].path = rc /\ BindLog[s].ok

\* no bind has returned Err before position t, so no Rc has been dropped
NothingDropped(t) ==
  \A s \in 1..(t - 1) : BindLog[s].event = "return" => BindLog[s].ok

\* the Rc fields of a bound node (bound_nodes.rs)
Owns(node) ==
  CASE node.kind = "Block" -> {node.expressions[i] : i \in 1..Len(node.expressions)}
    [] node.kind = "Export" -> {node.value.rc}
    [] node.kind = "Let" -> IF node.value # None THEN {node.value.rc} ELSE {}
    [] node.kind = "Unary" -> {node.operand}
    [] node.kind = "Binary" -> {node.left, node.right}
    [] node.kind = "Call" -> {node.operand} \cup {node.arguments[i] : i \in 1..Len(node.arguments)}
    [] OTHER -> {}

RECURSIVE Owned(_)
\* the nodes the node at rc keeps alive, itself included
Owned(rc) == {rc} \cup UNION {Owned(child) : child \in Owns(heap[rc])}

\* what is alive once bind_ast has returned Ok: the tree, and main's builtin
Alive == Owned(BindResult.node) \cup {BuiltinAddress}

\* the Weak fields of a bound node
Refers(node) ==
  CASE node.kind = "Name" -> {node.resolved_expression}
    [] node.kind = "Block" ->
         {node.exported_expressions[n] : n \in DOMAIN node.exported_expressions}
    [] OTHER -> {}

BoundNames == {rc \in DOMAIN heap : heap[rc].kind = "Name"}

Position(event, path) ==
  CHOOSE t \in 1..Len(BindLog) : BindLog[t].event = event /\ BindLog[t].path = path

C20_WeakReferentsAreLive ==
  bound_file # <<>> =>
    /\ \A t \in Derefs :
         LET weak == BindLog[t].weak IN
         /\ weak \in DOMAIN heap
         /\ weak = BuiltinAddress \/ BuiltBefore(weak, t)
         /\ NothingDropped(t)
         /\ BindResult.ok => weak \in Alive
    /\ \A rc \in BoundNames :
         LET weak == heap[rc].resolved_expression IN
         \/ weak = BuiltinAddress
         \/ /\ BuiltBefore(weak, Position("call", rc))
            /\ PathBefore(weak, rc)
    /\ BindResult.ok =>
         \A rc \in Owned(BindResult.node) : Refers(heap[rc]) \subseteq Alive

\* a bind that succeeded after the export-type loop of the file upgraded
\* an export and, below it, the Name that is the export's value
C20_Witness ==
  /\ bound_file # <<>>
  /\ BindResult.ok
  /\ \E t, u \in Derefs :
       /\ t < u
       /\ heap[BindLog[t].path].kind = "Block"
       /\ BindLog[u].path = BindLog[t].path
       /\ heap[BindLog[t].weak].kind = "Export"
       /\ heap[heap[BindLog[t].weak].value.rc].kind = "Name"
       /\ heap[heap[BindLog[t].weak].value.rc].resolved_expression = BindLog[u].weak
       /\ heap[BindLog[u].weak].kind \in {"Let", "Export"}

\* a bind that succeeded after an operator or a call took the type of a
\* Name that resolves to a definition of the file
C20_WitnessTyped ==
  /\ bound_file # <<>>
  /\ BindResult.ok
  /\ \E t \in Derefs :
       /\ heap[BindLog[t].path].kind \in {"Unary", "Binary", "Call"}
       /\ heap[BindLog[t].weak].kind \in {"Let", "Export"}

\* a bind that failed at a second definition, whose note was read through
\* the Weak of the first
C20_WitnessDuplicate ==
  /\ bound_file # <<>>
  /\ ~BindResult.ok
  /\ BindResult.error.message[1] = "DuplicateDefinition"
  /\ \E t \in Derefs :
       /\ BindLog[t].path = BindLog[FirstFailure].path
       /\ BindLog[t].weak # BuiltinAddress
       /\ t < FirstFailure

(***************************************************************************)
(* C24  For every syntax tree that binds, the run of the bytecode main     *)
(* emits for it never faults on an empty operand stack: no pop and no Dup  *)
(* finds the stack empty, whatever Blocks, valueless Lets and definitions  *)
(* whose value is a Block the tree holds.                                  *)
(***************************************************************************)
Bound == bound_file # <<>> /\ BindResult.ok

EmptyStackFaults == {"pop of an empty stack", "last of an empty stack"}

C24_NoEmptyStackFault == Bound => fault \notin EmptyStackFaults

(***************************************************************************)
(* C25  For every program that binds, the arithmetic instructions and      *)
(* PrintInteger only ever pop Integer cells and Call only ever pops a      *)
(* Procedure cell as its callee: the unreachable branches of               *)
(* unwrap_integer and unwrap_procedure are never reached.                  *)
(***************************************************************************)
TopCells(n) == {cells[Top.stack[i]] : i \in (Len(Top.stack) - n + 1)..Len(Top.stack)}

C25_TypeCheckingIsSound ==
  Bound =>
    /\ fault \notin {"unreachable: unwrap_integer", "unreachable: unwrap_procedure"}
    /\ \A op \in ArithmeticOps :
         (At(op) /\ Len(Top.stack) >= 2) => \A c \in TopCells(2) : c.kind = "Integer"
    /\ (At("PrintInteger") /\ Top.stack # <<>>) => \A c \in TopCells(1) : c.kind = "Integer"
    /\ (At("Call") /\ Len(Top.stack) > Instruction.argument_count) =>
         cells[Top.stack[Len(Top.stack) - Instruction.argument_count]].kind = "Procedure"

(***************************************************************************)
(* C26  The type of a bound Call node is the return type of its callee's   *)
(* procedure type: print_integer(1) has type Void, and a call of the       *)
(* result of a call of print_integer fails to bind with NotCallable.       *)
(***************************************************************************)
BoundCalls == {rc \in DOMAIN heap : heap[rc].kind = "Call"}

CallsACall ==
  /\ ast.expressions # <<>>
  /\ ast.expressions[1].kind = "Call"
  /\ ast.expressions[1].operand.kind = "Call"
  /\ ast.expressions[1].operand = PrintInteger(One)

C26_CallHasReturnType ==
  bound_file # <<>> =>
    /\ \A rc \in BoundCalls : get_type(heap, rc) = heap[rc].proc_type.return_type
    /\ CallsACall =>
         /\ ~BindResult.ok
         /\ BindResult.error.message = <<"NotCallable">>

(***************************************************************************)
(* C27  For a Let or Export with a value, the cell stored under its name   *)
(* is the cell the value expression produced; when the value is a Block,   *)
(* the name is never bound to a cell that was on the operand stack before  *)
(* the statement began.  Stated for the first statement of a file, which   *)
(* begins, after main's prologue, on a stack that holds the invocation's   *)
(* first cell and nothing else.                                            *)
(***************************************************************************)
\* the cell of `stack.insert(0, ...)` in the outermost invocation
InitialCell == 1

FirstDefinesAValue == FirstIsDefinition /\ ast.expressions[1].value # None

C27_ValueCellIsStored ==
  (Bound /\ FirstDefinesAValue /\ pc = "running" /\ Len(frames) = 1) =>
    LET definition == ast.expressions[1] IN
    /\ Top.ip = PrologueLen => Top.stack = <<InitialCell>>
    /\ Top.ip = PrologueLen + Len(compile(heap, <<1>>, <<>>)) =>
         /\ definition.name \in DOMAIN Top.vars
         /\ Top.vars[definition.name] # InitialCell
         /\ definition.value.kind = "Integer" =>
              cells[Top.vars[definition.name]] = ValueInteger(definition.value.value)

(***************************************************************************)
(* C28  Name resolution at run time agrees with the binder.  In a program  *)
(* that binds, every Load is executed by the outermost invocation, it is   *)
(* the Load of a bound Name node, it finds the name in the environment,    *)
(* and the Store of that name executed last before it is the Store of the  *)
(* very Let or Export (or of main's prologue, for the builtin) the binder  *)
(* resolved the Name to.  The outermost invocation's code has no jumps, so *)
(* the Store executed last before an instruction is the last one before it *)
(* in the code.                                                            *)
(***************************************************************************)
CodeLen(rc) == Len(compile(heap, rc, <<>>))

RECURSIVE CodeBefore(_, _)
\* the length of the code a parent emits for its children before the i-th
CodeBefore(parent, i) ==
  IF i = 1 THEN 0
  ELSE CodeBefore(parent, i - 1) + CodeLen(parent \o <<i - 1>>)
         + (IF heap[parent].kind = "Block" THEN 1 ELSE 0)

RECURSIVE CodeStart(_)
\* the number of instructions main's bytecode holds before those of node rc
CodeStart(rc) ==
  IF rc = <<>> THEN PrologueLen
  ELSE CodeStart(Front(rc)) + CodeBefore(Front(rc), Last(rc))

\* the index in main's bytecode of the Store that defines the referent
StoreOf(referent) ==
  IF referent = BuiltinAddress THEN PrologueLen ELSE CodeStart(referent) + CodeLen(referent)

\* the index of the last Store of name among the first n instructions
LastStore(name, n) ==
  LET stores == {j \in 1..n : bytecode[j] = Store(name)}
  IN IF stores = {} THEN 0 ELSE CHOOSE j \in stores : \A k \in stores : k <= j

LoadedNames == {rc \in BoundNames \cap Owned(BindResult.node) : CodeStart(rc) = Top.ip}

C28_LoadAgreesWithBinder ==
  (Bound /\ At("Load")) =>
    /\ Len(frames) = 1
    /\ Instruction.name \in DOMAIN Top.vars
    /\ \E rc \in LoadedNames :
         /\ heap[rc].name = Instruction.name
         /\ LastStore(heap[rc].name, Top.ip) = StoreOf(heap[rc].resolved_expression)

\* a Load inside a block of a name that a Let or Export outside of the
\* block defines
C28_Witness ==
  /\ Bound
  /\ At("Load")
  /\ \E rc \in LoadedNames :
       /\ heap[rc].resolved_expression # BuiltinAddress
       /\ heap[heap[rc].resolved_expression].kind \in {"Let", "Export"}
       /\ ScopeOf(ast, rc) # ScopeOf(ast, heap[rc].resolved_expression)

(***************************************************************************)
(* C29  Each of AddInteger, SubInteger, MulInteger and DivInteger takes    *)
(* the cell on top as its right operand and the one below as its left,     *)
(* and, unless it faults, replaces the two by one fresh Integer cell that  *)
(* holds left op right as an i64, so that the stack is one cell            *)
(* shallower.  It faults only on a zero divisor or a result outside the    *)
(* i64 range.  With 7 pushed before 2, SubInteger yields 5 and DivInteger  *)
(* yields 3.                                                               *)
(***************************************************************************)
Operating(op) ==
  /\ At(op)
  /\ Len(Top.stack) >= 2
  /\ \A c \in TopCells(2) : c.kind = "Integer"

LeftOperand == cells[Top.stack[Len(Top.stack) - 1]].value

RightOperand == cells[Last(Top.stack)].value

BothSmall == LeftOperand[1] = 0 /\ RightOperand[1] = 0

\* left op right for small operands, in unbounded integers
Exact(op, n, m) ==
  CASE op = "AddInteger" -> n + m
    [] op = "SubInteger" -> n - m
    [] op = "MulInteger" -> n * m
    [] op = "DivInteger" -> Quotient(n, m)

SevenAndTwo(op) ==
  <<Push(ValueInteger(Small(7))), Push(ValueInteger(Small(2))), Op(op),
    Op("PrintInteger"), Op("Exit")>>

C29_ArithmeticOperandOrder ==
  /\ [][\A op \in ArithmeticOps :
          Operating(op) =>
            /\ pc' = "running" =>
                 /\ Len(frames') = Len(frames)
                 /\ frames'[Len(frames')].ip = Top.ip + 1
                 /\ frames'[Len(frames')].stack
                      = Append(SubSeq(Top.stack, 1, Len(Top.stack) - 2), Len(cells) + 1)
                 /\ Len(cells') = Len(cells) + 1
                 /\ SubSeq(cells', 1, Len(cells)) = cells
                 /\ cells'[Len(cells')].kind = "Integer"
                 /\ Len(cells'[Len(cells')].value) = 2
                 /\ InI64(cells'[Len(cells')].value)
            /\ (BothSmall /\ ~(op = "DivInteger" /\ RightOperand = Small(0))) =>
                 /\ pc' = "running"
                 /\ cells'[Len(cells')].value
                      = Small(Exact(op, LeftOperand[2], RightOperand[2]))
            /\ pc' # "running" =>
                 /\ status' = "panic"
                 /\ \/ op = "DivInteger" /\ RightOperand = Small(0)
                    \/ ~BothSmall]_vars
  /\ [](pc = "done" =>
          /\ bytecode = SevenAndTwo("SubInteger") => output = <<Small(5)>>
          /\ bytecode = SevenAndTwo("DivInteger") => output = <<Small(3)>>)

\* 7 / 2 was computed and printed
C29_Witness ==
  /\ pc = "done"
  /\ status = "exit 0"
  /\ bytecode = SevenAndTwo("DivInteger")
  /\ output = <<Small(3)>>

\* -7 / 2 was rounded toward zero
C29_WitnessNegative ==
  /\ pc = "done"
  /\ status = "exit 0"
  /\ bytecode[1] = Push(ValueInteger(Small(-7)))
  /\ bytecode[2] = Push(ValueInteger(Small(2)))
  /\ bytecode[3] = Op("DivInteger")
  /\ output = <<Small(-3)>>

(***************************************************************************)
(* C30  Lowering is append-only and ordered.  Lowering a node onto any     *)
(* instructions already emitted leaves them unchanged and in place, and    *)
(* what it appends does not depend on them.  For a Binary the appended     *)
(* code is the code of the left operand, then the code of the right        *)
(* operand, then the one operator instruction; for a Call it is the code   *)
(* of the callee, then the code of each argument from left to right, then  *)
(* Call(n) with n the number of arguments.                                 *)
(***************************************************************************)
Code(rc) == compile(heap, rc, <<>>)

\* instruction sequences a node is lowered onto
Emitted == {<<>>, SubSeq(bytecode, 1, PrologueLen), bytecode}

OperatorInstruction(kind) ==
  CASE kind = "Addition" -> "AddInteger"
    [] kind = "Subtraction" -> "SubInteger"
    [] kind = "Multiplication" -> "MulInteger"
    [] kind = "Division" -> "DivInteger"

RECURSIVE ArgumentsCode(_, _)
\* the code of arguments[i..], one argument after the other
ArgumentsCode(arguments, i) ==
  IF i > Len(arguments) THEN <<>>
  ELSE Code(arguments[i]) \o ArgumentsCode(arguments, i + 1)

C30_LoweringAppendsInOrder ==
  JustCompiled =>
    /\ \E tail \in {SubSeq(bytecode, PrologueLen + 1, Len(bytecode))} :
         tail = Code(bound_file[1].node) \o <<Op("Exit")>>
    /\ \A rc \in DOMAIN heap :
         /\ \A out \in Emitted : compile(heap, rc, out) = out \o Code(rc)
         /\ heap[rc].kind = "Binary" =>
              Code(rc) = Code(heap[rc].left) \o Code(heap[rc].right)
                           \o <<[op |-> OperatorInstruction(heap[rc].operator.kind)]>>
         /\ heap[rc].kind = "Call" =>
              Code(rc) = Code(heap[rc].operand) \o ArgumentsCode(heap[rc].arguments, 1)
                           \o <<[op |-> "Call", argument_count |-> Len(heap[rc].arguments)]>>

\* a Binary whose operands lower to different code was lowered
C30_Witness ==
  /\ JustCompiled
  /\ \E rc \in DOMAIN heap :
       /\ heap[rc].kind = "Binary"
       /\ Code(heap[rc].left) # Code(heap[rc].right)
       /\ \E i \in 1..Len(bytecode) :
            SubSeq(bytecode, i, i + Len(Code(rc)) - 1) = Code(rc)

\* a Call whose argument is itself an operation was lowered
C30_WitnessCall ==
  /\ JustCompiled
  /\ \E rc \in DOMAIN heap :
       /\ heap[rc].kind = "Call"
       /\ Len(heap[rc].arguments) = 1
       /\ heap[heap[rc].arguments[1]].kind = "Binary"
       /\ \E i \in 1..Len(bytecode) :
            SubSeq(bytecode, i, i + Len(Code(rc)) - 1) = Code(rc)

(***************************************************************************)
(* C21  The parser builds binary expression trees by precedence with left  *)
(* associativity: * and / bind tighter than + and -, which bind tighter    *)
(* than the comparison operators, and operators of equal precedence group  *)
(* to the left.  `1 + 2 * 3` parses as Plus(1, Asterisk(2, 3)) and         *)
(* `a - b - c` as Minus(Minus(a, b), c).                                   *)
(***************************************************************************)
\* the run is dump_ast's and parse_file has returned Ok
FileParsed == lexer = <<>> /\ pc \in {"dump_ast", "done"} /\ status # "exit 1"

\* how tightly an operator binds, by its text
Level(text) ==
  CASE text \in {<<"*">>, <<"/">>} -> 3
    [] text \in {<<"+">>, <<"-">>} -> 2
    [] OTHER -> 1

Leaf(text) ==
  CASE text = <<"1">> -> AstInteger(Small(1))
    [] text = <<"2">> -> AstInteger(Small(2))
    [] text = <<"3">> -> AstInteger(Small(3))
    [] text = <<"4">> -> AstInteger(Small(4))
    [] OTHER -> AstName(text[1])

\* the kind of the token the lexer makes of an operator's text
OperatorToken(text) == next_token(Lexer_new(text)).token.kind.tag

RECURSIVE Tree(_, _)
\* the tree of operand 1, operator 1, operand 2, ...: the root is the last
\* of the operators that bind least
Tree(operands, operators) ==
  IF operators = <<>> THEN Leaf(operands[1])
  ELSE LET n == Len(operators)
           loosest == CHOOSE m \in 1..3 :
                        /\ \E i \in 1..n : Level(operators[i]) = m
                        /\ \A i \in 1..n : Level(operators[i]) >= m
           k == CHOOSE i \in 1..n :
                  /\ Level(operators[i]) = loosest
                  /\ \A j \in (i + 1)..n : Level(operators[j]) > loosest
       IN AstBinary(Tree(SubSeq(operands, 1, k), SubSeq(operators, 1, k - 1)),
                    OperatorToken(operators[k]),
                    Tree(SubSeq(operands, k + 1, n + 1), SubSeq(operators, k + 1, n)))

AMinusBMinusC ==
  AstBinary(AstBinary(AstName("a"), "Minus", AstName("b")), "Minus", AstName("c"))

RECURSIVE Words(_, _, _)
\* the words of text from character i on, `word` being the one under way;
\* words are separated by single spaces
Words(text, i, word) ==
  IF i > Len(text) THEN <<word>>
  ELSE IF text[i] = " " THEN <<word>> \o Words(text, i + 1, <<>>)
  ELSE Words(text, i + 1, Append(word, text[i]))

\* the operands of an expression are its odd words, the operators its even
\* ones
OperandsOf(text) ==
  LET words == Words(text, 1, <<>>)
  IN [i \in 1..((Len(words) + 1) \div 2) |-> words[2 * i - 1]]

OperatorsOf(text) ==
  LET words == Words(text, 1, <<>>)
  IN [i \in 1..(Len(words) \div 2) |-> words[2 * i]]

C21_PrecedenceAndLeftAssociativity ==
  /\ (source \in ExpressionSources /\ lexer = <<>> /\ pc # "parse") =>
       /\ FileParsed
       /\ Len(OperatorsOf(source)) >= 1
       /\ ast = AstFile(<<Tree(OperandsOf(source), OperatorsOf(source))>>)
  /\ (FileParsed /\ source = <<"1", " ", "+", " ", "2", " ", "*", " ", "3">>) =>
       ast = AstFile(<<OnePlusTwoTimesThree>>)
  /\ (FileParsed /\ source = <<"a", " ", "-", " ", "b", " ", "-", " ", "c">>) =>
       ast = AstFile(<<AMinusBMinusC>>)

\* `a - b - c` was parsed and dumped
C21_Witness ==
  /\ pc = "done"
  /\ source = <<"a", " ", "-", " ", "b", " ", "-", " ", "c">>
  /\ output = <<AstFile(<<AMinusBMinusC>>)>>

\* `1 + 2 * 3` was parsed and dumped
C21_WitnessPrecedence ==
  /\ pc = "done"
  /\ source = <<"1", " ", "+", " ", "2", " ", "*", " ", "3">>
  /\ output = <<AstFile(<<OnePlusTwoTimesThree>>)>>

(***************************************************************************)
(* C22  The lexer reads an integer literal in base 2, 8, 10 or 16 when it  *)
(* is prefixed by 0b, 0o, 0d or 0x respectively and in base 10 otherwise,  *)
(* and the token's value is the numeric value of its digits in that base;  *)
(* a digit whose value is greater than or equal to the base (as in         *)
(* `0b135`) makes next_token return an error instead of an Integer token.  *)
(***************************************************************************)
\* tokens are being taken one by one and the first Result is in
FirstTaken == lexer # <<>> /\ tokens # <<>>

Prefixed(text) == Len(text) >= 2 /\ text[1] = "0" /\ text[2] \in {"b", "o", "d", "x"}

BaseOf(text) ==
  IF Prefixed(text)
  THEN CASE text[2] = "b" -> 2
         [] text[2] = "o" -> 8
         [] text[2] = "d" -> 10
         [] text[2] = "x" -> 16
  ELSE 10

IsDigit(c) == c # "_"

\* the digits of a literal: what follows the prefix, separators left out
DigitsOf(text) ==
  SelectSeq(SubSeq(text, IF Prefixed(text) THEN 3 ELSE 1, Len(text)), IsDigit)

DigitValue(c) ==
  CASE c = "0" -> 0
    [] c = "1" -> 1
    [] c = "2" -> 2
    [] c = "7" -> 7
    [] c = "8" -> 8
    [] c = "9" -> 9
    [] c = "a" -> 10
    [] c = "F" -> 15
    [] c = "g" -> 16

RECURSIVE Numeral(_, _)
\* the number the digits write in the base
Numeral(digits, base) ==
  IF digits = <<>> THEN 0
  ELSE Numeral(Front(digits), base) * base + DigitValue(Last(digits))

OutOfBase(text) ==
  {i \in 1..Len(DigitsOf(text)) : DigitValue(DigitsOf(text)[i]) >= BaseOf(text)}

TestTokens ==
  <<KindInteger(123), KindInteger(2134), KindInteger(543), KindInteger(37), KindInteger(3004)>>

C22_IntegerLiterals ==
  /\ (source \in LiteralSources /\ FirstTaken) =>
       IF OutOfBase(source) = {}
       THEN /\ tokens[1].ok
            /\ tokens[1].token.kind = KindInteger(Numeral(DigitsOf(source), BaseOf(source)))
            /\ tokens[1].token.length = Len(source)
            /\ Len(tokens) >= 2 => (tokens[2].ok /\ tokens[2].token.kind = Kind("EndOfFile"))
       ELSE /\ ~tokens[1].ok
            /\ \E i \in OutOfBase(source) :
                 /\ \A j \in OutOfBase(source) : i <= j
                 /\ tokens[1].error.message
                      = <<"Character is too big for base", DigitsOf(source)[i], BaseOf(source)>>
            /\ Len(tokens) = 1
            /\ pc = "done"
  /\ (source = IntegerTestSource /\ lexer # <<>>) =>
       /\ \A i \in 1..Len(tokens) :
            IF i <= 5 THEN tokens[i].ok /\ tokens[i].token.kind = TestTokens[i]
            ELSE i = 6 /\ ~tokens[i].ok
       /\ pc = "done" => Len(tokens) = 6

\* 0xFa was read as 250
C22_Witness ==
  /\ source = <<"0", "x", "F", "a">>
  /\ FirstTaken
  /\ tokens[1].ok
  /\ tokens[1].token.kind = KindInteger(250)

\* the 2 of 0b2 was refused
C22_WitnessTooBig ==
  /\ source = <<"0", "b", "2">>
  /\ FirstTaken
  /\ ~tokens[1].ok
  /\ pc = "done"

\* the five literals of the test were read and 0b135 was refused
C22_WitnessTest ==
  /\ source = IntegerTestSource
  /\ pc = "done"
  /\ Len(tokens) = 6
  /\ ~tokens[6].ok

(***************************************************************************)
(* C23  parse_file returns one top-level expression per newline-separated  *)
(* expression, in source order, followed by the EndOfFile token (zero      *)
(* expressions for an empty source); a `let NAME` without `=` has no value *)
(* while `let NAME = e` and `export NAME = e` carry the parsed e, and a    *)
(* `{ ... }` block used as such a value contains its child expressions in  *)
(* source order.                                                           *)
(***************************************************************************)
\* the statement lists and layouts that write the source: statements
\* separated by newlines, or nothing at all
Readings ==
  {t \in StatementLists \X Layouts :
     source = FileText(t[1], t[2]) /\ (t[1] = <<>> => source = <<>>)}

EndOfFileToken == parse_file(Lexer_new(source)).end_of_file_token

C23_OneExpressionPerStatement ==
  (Readings # {} /\ lexer = <<>> /\ pc # "parse") =>
    /\ FileParsed
    /\ \A t \in Readings : ast = AstFile(Nodes(t[1]))
    /\ EndOfFileToken.kind = Kind("EndOfFile")
    /\ EndOfFileToken.location.position = Len(source)

====
